---- MODULE Spec2Model ----
(***************************************************************************)
(* A model of the slack-irc bridge (lib/helpers.js and lib/bot.js): the    *)
(* Bot that relays between a Slack workspace and an IRC network, its       *)
(* in-band commands, and the per-user shadow IRC clients with their away   *)
(* timers.                                                                 *)
(*                                                                         *)
(* Strings are sequences of one-character strings, so that the string and  *)
(* regular-expression operations of the code are computed, not assumed.    *)
(***************************************************************************)
EXTENDS Integers, Sequences, FiniteSets, TLC

\* ------------------------------------------------------------------------
\* Characters and character classes
\* ------------------------------------------------------------------------

Lower == {"a","b","c","d","e","f","g","h","i","j","k","l","m","n","o","p","q",
          "r","s","t","u","v","w","x","y","z"}

Upper == {"A","B","C","D","E","F","G","H","I","J","K","L","M","N","O","P","Q",
          "R","S","T","U","V","W","X","Y","Z"}

Digit == {"0","1","2","3","4","5","6","7","8","9"}

\* \s of a JavaScript regular expression (the members that occur in the model)
SpaceChars == {" ", "\t", "\n", "\r"}

\* the line terminators, which `.` does not match
LineTerminators == {"\n", "\r"}

\* A character class: the characters of `of`, or (neg) every other character.
Cls(of, neg) == [of |-> of, neg |-> neg]

InCls(c, cls) == (c \in cls.of) # cls.neg

ClsWord     == Cls(Lower \cup Upper \cup Digit \cup {"_"}, FALSE)   \* \w
ClsDigit    == Cls(Digit, FALSE)                                    \* \d
ClsSpace    == Cls(SpaceChars, FALSE)                               \* \s
ClsNonSpace == Cls(SpaceChars, TRUE)                                \* \S
ClsDot      == Cls(LineTerminators, TRUE)                           \* .
ClsAny      == Cls({}, TRUE)                                        \* [^]
ClsChar(c)  == Cls({c}, FALSE)                                      \* a literal

\* String.prototype.toLowerCase, one character
LowerOf(c) ==
  CASE c = "A" -> "a" [] c = "B" -> "b" [] c = "C" -> "c" [] c = "D" -> "d"
    [] c = "E" -> "e" [] c = "F" -> "f" [] c = "G" -> "g" [] c = "H" -> "h"
    [] c = "I" -> "i" [] c = "J" -> "j" [] c = "K" -> "k" [] c = "L" -> "l"
    [] c = "M" -> "m" [] c = "N" -> "n" [] c = "O" -> "o" [] c = "P" -> "p"
    [] c = "Q" -> "q" [] c = "R" -> "r" [] c = "S" -> "s" [] c = "T" -> "t"
    [] c = "U" -> "u" [] c = "V" -> "v" [] c = "W" -> "w" [] c = "X" -> "x"
    [] c = "Y" -> "y" [] c = "Z" -> "z" [] OTHER -> c

toLowerCase(s) == [i \in 1..Len(s) |-> LowerOf(s[i])]

\* ------------------------------------------------------------------------
\* Regular expressions: a pattern is a sequence of quantified character
\* classes, matched with JavaScript's backtracking order (greedy: longest
\* first, lazy: shortest first).
\* ------------------------------------------------------------------------

Item(cls, min, bounded, max, lazy) ==
  [cls |-> cls, min |-> min, bounded |-> bounded, max |-> max, lazy |-> lazy]

One(cls)      == Item(cls, 1, TRUE, 1, FALSE)    \* x
Opt(cls)      == Item(cls, 0, TRUE, 1, FALSE)    \* x?
Star(cls)     == Item(cls, 0, FALSE, 0, FALSE)   \* x*
Plus(cls)     == Item(cls, 1, FALSE, 0, FALSE)   \* x+
PlusLazy(cls) == Item(cls, 1, FALSE, 0, TRUE)    \* x+?
Times(cls, n) == Item(cls, n, TRUE, n, FALSE)    \* x{n}

\* the pattern of a literal string
Lit(s) == [i \in 1..Len(s) |-> One(ClsChar(s[i]))]

NoMatch == <<>>

\* the number of characters from pos on that are in the item's class, up to
\* the item's maximum
Run(it, text, pos) ==
  LET rest == Len(text) + 1 - pos
      lim == IF it.bounded /\ it.max < rest THEN it.max ELSE rest
  IN CHOOSE n \in 0..lim :
       /\ \A j \in 0..(n - 1) : InCls(text[pos + j], it.cls)
       /\ n = lim \/ ~InCls(text[pos + n], it.cls)

\* Match items k.. of pat at pos. NoMatch, or <<ends>> where ends[j] is the
\* position after the match of item k+j-1. toEnd: the pattern ends in `$`.
\* An item takes the first count, in its order of preference (greedy: most
\* first, lazy: fewest first), with which the rest of the pattern matches.
RECURSIVE MatchFrom(_, _, _, _, _)
RECURSIVE TryCount(_, _, _, _, _, _, _)

MatchFrom(pat, k, text, pos, toEnd) ==
  IF k > Len(pat)
  THEN IF toEnd /\ pos # Len(text) + 1 THEN NoMatch ELSE << <<>> >>
  ELSE LET run == Run(pat[k], text, pos)
       IN IF run < pat[k].min THEN NoMatch
          ELSE TryCount(pat, k, text, pos, toEnd,
                        IF pat[k].lazy THEN pat[k].min ELSE run, run)

TryCount(pat, k, text, pos, toEnd, c, run) ==
  IF c < pat[k].min \/ c > run THEN NoMatch
  ELSE LET r == MatchFrom(pat, k + 1, text, pos + c, toEnd)
       IN IF r # NoMatch THEN << <<pos + c>> \o r[1] >>
          ELSE TryCount(pat, k, text, pos, toEnd,
                        IF pat[k].lazy THEN c + 1 ELSE c - 1, run)

\* where item j of a match that began at pos starts and ends (end exclusive)
ItemStart(pos, ends, j) == IF j = 1 THEN pos ELSE ends[j - 1]

\* the text matched by items i..j (a capture group; empty when the group
\* did not take part, which JavaScript reports as undefined: both are falsy)
Group(text, pos, ends, i, j) == SubSeq(text, ItemStart(pos, ends, i), ends[j] - 1)

MatchEnd(pos, ends) == IF ends = <<>> THEN pos ELSE ends[Len(ends)]

\* regex.test(text) / text.match(regex) without the g flag: the leftmost
\* match, as <<[pos, ends]>>, or NoMatch
Search(pat, text, from) ==
  LET starts == {p \in from..(Len(text) + 1) :
                   MatchFrom(pat, 1, text, p, FALSE) # NoMatch}
  IN IF starts = {} THEN NoMatch
     ELSE LET p == CHOOSE x \in starts : \A y \in starts : x <= y
          IN << [pos |-> p, ends |-> MatchFrom(pat, 1, text, p, FALSE)[1]] >>

\* the successive matches of a g-flagged regex, left to right
RECURSIVE AllMatches(_, _, _)
AllMatches(pat, text, pos) ==
  LET m == Search(pat, text, pos)
  IN IF m = NoMatch THEN <<>>
     ELSE LET e == MatchEnd(m[1].pos, m[1].ends)
          IN m \o AllMatches(pat, text, IF e = m[1].pos THEN e + 1 ELSE e)

\* text.replace(regex, ...): matches ms replaced by reps[i], the rest kept
RECURSIVE Rebuild(_, _, _, _, _)
Rebuild(text, ms, reps, i, pos) ==
  IF i > Len(ms) THEN SubSeq(text, pos, Len(text))
  ELSE SubSeq(text, pos, ms[i].pos - 1) \o reps[i]
       \o Rebuild(text, ms, reps, i + 1, MatchEnd(ms[i].pos, ms[i].ends))

\* text.replace(/literal/g, rep)
ReplaceLit(text, lit, rep) ==
  CHOOSE r \in
    {Rebuild(text, ms, [i \in 1..Len(ms) |-> rep], 1, 1) :
       ms \in {AllMatches(Lit(lit), text, 1)}} : TRUE


\* ------------------------------------------------------------------------
\* String constants of the code
\* ------------------------------------------------------------------------

\* the character U+0060 (grave accent), which fences a code block
BQ == "BQ"

\* the falsy values undefined / null / '' of a string-valued expression
None == <<>>

StrCommandSentBy ==
  <<"C","o","m","m","a","n","d"," ","s","e","n","t"," ","f","r","o","m"," ",
    "S","l","a","c","k"," ","b","y"," ">>

StrAction ==
  <<"A","c","t","i","o","n",":"," ">>

StrGiphy ==
  <<"P","o","s","t","e","d"," ","f","r","o","m"," ","G","i","p","h","y",":",
    " ">>

StrFollowingUsers ==
  <<"T","h","e"," ","f","o","l","l","o","w","i","n","g"," ","u","s","e","r",
    "s"," ","a","r","e"," ","i","n"," ">>

StrNoUsersOnline ==
  <<"N","o"," ","u","s","e","r","s"," ","a","r","e"," ","o","n","l","i","n",
    "e"," ","m","a","t","c","h","i","n","g"," ","'">>

StrMatchedUsers ==
  <<"'"," ","m","a","t","c","h","e","d"," ","t","h","e"," ","f","o","l","l",
    "o","w","i","n","g"," ","u","s","e","r","s",":"," ">>

StrIrcTopic ==
  <<"I","R","C"," ","T","o","p","i","c",":"," "," ">>

StrHelp ==
  <<"H","E","L","P",":"," ",BQ,BQ,BQ,".","o","n","l","i","n","e"," ","[",
    ","," ","q","u","e","r","y","]",BQ,BQ,BQ," ","S","e","n","d","s"," ",
    "a"," ","l","i","s","t"," ","o","f"," ","a","l","l"," ","n","a","m","e",
    "s"," ","i","n"," ","t","h","e"," ","I","R","C"," ","c","h","a","n","n",
    "e","l"," ","a","s"," ","a"," ","D","M","."," ","I","f"," ","q","u","e",
    "r","y"," ","p","a","r","a","m","e","t","e","r"," ","i","s"," ","p","r",
    "o","v","i","d","e","d",","," ","s","e","n","d","s"," ","a"," ","l","i",
    "s","t"," ","o","f"," ","p","a","r","t","i","a","l","l","y"," ","m","a",
    "t","c","h","i","n","g"," ","n","i","c","k","s"," ","a","n","d"," ","d",
    "i","s","p","l","a","y","s"," ","t","h","e","m"," ","i","n"," ","t","h",
    "e"," ","S","l","a","c","k"," ","c","h","a","n","n","e","l",".","\n",BQ,
    BQ,BQ,".","i","r","c","t","o","p","i","c",BQ,BQ,BQ," ","S","e","n","d",
    "s"," ","t","h","e"," ","I","R","C"," ","c","h","a","n","n","e","l"," ",
    "t","o","p","i","c"," ","t","o"," ","t","h","e"," ","S","l","a","c","k",
    " ","c","h","a","n","n","e","l",".",BQ,BQ,BQ,".","t","o","p","i","c",
    " ","[","n","e","w"," ","t","o","p","i","c","]",BQ,BQ,BQ," ","S","e",
    "t","s"," ","t","h","e"," ","t","o","p","i","c"," ","i","n"," ","t","h",
    "e"," ","I","R","C"," ","C","h","a","n","n","e","l",".",BQ,BQ,BQ,".",
    "h","e","l","p",BQ,BQ,BQ," ","D","i","s","p","l","a","y","s"," ","t",
    "h","i","s"," ","m","e","s","s","a","g","e",".">>

StrMustSupply ==
  <<"Y","o","u"," ","m","u","s","t"," ","s","u","p","p","l","y"," ","a"," ",
    "m","e","s","s","a","g","e",".">>

StrJoined ==
  <<"*"," ","h","a","s"," ","j","o","i","n","e","d"," ","t","h","e"," ","I",
    "R","C"," ","c","h","a","n","n","e","l">>

StrLeft ==
  <<"*"," ","h","a","s"," ","l","e","f","t"," ","t","h","e"," ","I","R","C",
    " ","c","h","a","n","n","e","l">>

StrQuit ==
  <<"*"," ","h","a","s"," ","q","u","i","t"," ","t","h","e"," ","I","R","C",
    " ","c","h","a","n","n","e","l">>

StrIrcSuffix ==
  <<" ","(","I","R","C",")">>


\* ------------------------------------------------------------------------
\* Configuration (the options the Bot is constructed from)
\* ------------------------------------------------------------------------

SERVER_NICKLEN == 16

nickname ==
  <<"b","o","t">>

nickSuffix ==
  <<"-","s","l">>

commandCharacters == {"."}

muteSlackbot == TRUE

NameAl ==
  <<"a","l">>

NameADotL ==
  <<"a",".","l">>

NameMal ==
  <<"m","a","l">>

NameBo ==
  <<"b","o">>

NameSlackbot ==
  <<"s","l","a","c","k","b","o","t">>

NickBob ==
  <<"b","o","b">>

NickTroll ==
  <<"t","r","o","l","l">>

NickAmy ==
  <<"A","m","y">>

muteUsers == [slack |-> {NameMal}, irc |-> {NickTroll}]

ircStatusNotices == [join |-> TRUE, leave |-> TRUE]

SlackGen ==
  <<"#","g","e","n">>

SlackOps ==
  <<"o","p","s">>

SlackDev ==
  <<"#","d","e","v">>

RawIrcGen ==
  <<"#","I","r","c"," ","p","w">>

IrcGen ==
  <<"#","i","r","c">>

IrcGenUpper ==
  <<"#","I","R","C">>

IrcOps ==
  <<"#","o","p","s">>

IrcDev ==
  <<"#","d","e","v">>

IrcOther ==
  <<"#","z","z","z">>

\* options.channelMapping, in the insertion order of its keys
optionsChannelMapping ==
  << <<SlackGen, RawIrcGen>>, <<SlackOps, IrcOps>>, <<SlackDev, IrcDev>> >>

\* ircChan.split(' ')[0]
RECURSIVE FirstWord(_)
FirstWord(s) ==
  IF s = <<>> \/ s[1] = " " THEN <<>> ELSE <<s[1]>> \o FirstWord(Tail(s))

\* this.channelMapping as the constructor builds it from a mapping given as
\* the pairs <<slackChan, ircChan>> of its keys: passwords removed, IRC names
\* lower-cased                                            (lines 228..233)
MappingOf(options) ==
  [i \in 1..Len(options) |->
     <<options[i][1], toLowerCase(FirstWord(options[i][2]))>>]

\* the last index of pairs whose component c is x, or 0
RECURSIVE LastIndex(_, _, _, _)
LastIndex(pairs, c, x, i) ==
  IF i = 0 THEN 0
  ELSE IF pairs[i][c] = x THEN i ELSE LastIndex(pairs, c, x, i - 1)

\* mapping[slackName], None when there is no such key
Forward(mapping, slackName) ==
  LET i == LastIndex(mapping, 1, slackName, Len(mapping))
  IN IF i = 0 THEN None ELSE mapping[i][2]

\* _.invert(mapping)[ircName] (a later key wins), None when absent (line 235)
Inverse(mapping, ircName) ==
  LET i == LastIndex(mapping, 2, ircName, Len(mapping))
  IN IF i = 0 THEN None ELSE mapping[i][1]

\* this.channelMapping of the Bot
channelMappingPairs == MappingOf(optionsChannelMapping)

\* this.channelMapping[slackName], None when there is no such key
channelMapping(slackName) == Forward(channelMappingPairs, slackName)

\* this.invertedMapping[ircName], None when absent
invertedMapping(ircName) == Inverse(channelMappingPairs, ircName)


\* ------------------------------------------------------------------------
\* The Slack dataStore: channels, groups and DMs (fixed), users (variable)
\* ------------------------------------------------------------------------

IdGen ==
  <<"C","1">>

IdDev ==
  <<"C","2">>

IdRnd ==
  <<"C","3">>

IdOps ==
  <<"G","1">>

IdDm1 ==
  <<"D","1">>

IdDm2 ==
  <<"D","2">>

IdUnknown ==
  <<"C","9">>

U1 ==
  <<"U","1">>

U2 ==
  <<"U","2">>

USLACKBOT ==
  <<"U","S","L","A","C","K","B","O","T">>

NameGen ==
  <<"g","e","n">>

NameDev ==
  <<"d","e","v">>

NameRnd ==
  <<"r","n","d">>


Users == {U1, U2, USLACKBOT}

Chan(name, isChannel, isGroup, isMember, members) ==
  [name |-> name, is_channel |-> isChannel, is_group |-> isGroup,
   is_member |-> isMember, members |-> members]

\* #gen: mapped, joined.  #dev: mapped, a public channel the bot is not in.
\* #rnd: joined, not mapped.  ops: a mapped private group.  D1, D2: the DMs
\* of the bot with U1 and U2 (a DM has no name).
dsChannels ==
  (IdGen :> Chan(NameGen, TRUE, FALSE, TRUE, <<U1, U2>>)) @@
  (IdDev :> Chan(NameDev, TRUE, FALSE, FALSE, <<>>)) @@
  (IdRnd :> Chan(NameRnd, TRUE, FALSE, TRUE, <<U1>>)) @@
  (IdOps :> Chan(SlackOps, FALSE, TRUE, FALSE, <<U1>>)) @@
  (IdDm1 :> Chan(None, FALSE, FALSE, FALSE, <<>>)) @@
  (IdDm2 :> Chan(None, FALSE, FALSE, FALSE, <<>>))

\* dataStore.getChannelGroupOrDMById(id) is defined
KnownChannelGroupOrDM(id) == id \in DOMAIN dsChannels

\* dataStore.getChannelById(id) is defined
KnownChannel(id) == id \in DOMAIN dsChannels /\ dsChannels[id].is_channel

\* the ids dataStore.getChannelOrGroupByName(name) chooses from
ChannelOrGroupIdsByName(name) ==
  {id \in DOMAIN dsChannels :
     /\ dsChannels[id].is_channel \/ dsChannels[id].is_group
     /\ dsChannels[id].name = name}

\* the DM that slack.web.im.open(user) opens
DmOf(user) == IF user = U1 THEN IdDm1 ELSE IdDm2

\* `#${channel.name}` for a channel, channel.name otherwise   (lines 547, 688)
ChannelName(id) ==
  IF dsChannels[id].is_channel THEN <<"#">> \o dsChannels[id].name
  ELSE dsChannels[id].name

\* slackChannelName.replace(/^#/, '')
StripHash(name) == IF name # <<>> /\ name[1] = "#" THEN Tail(name) ELSE name

\* ------------------------------------------------------------------------
\* State
\* ------------------------------------------------------------------------

VARIABLES
  dsUsers,     \* dataStore users: id -> [name, presence]
  ircClients,  \* this.ircClients: user id -> [nick, slackName, timer]
  nickReqs,    \* NICK commands of shadow clients the server has not answered
  timers,      \* pending timeouts: [id, user, left (ticks to the deadline)]
  gists,       \* pending gist calls: message id -> [message, match]
  namesOnce,   \* the once('names') listeners, in registration order
  topicOnce,   \* the once('topic') listeners, in registration order
  imOpens,     \* pending slack.web.im.open callbacks
  nextMsg,     \* Slack message events received so far
  crashed,     \* an uncaught exception ended the process
  ircSent,     \* what the last step sent to the IRC network
  slackSent,   \* what the last step sent to Slack
  last,        \* the event the last step handled
  relayed,     \* ids of the Slack messages said as chat lines on IRC, in order
  replied,     \* ids of the command requests answered on Slack, in order
  idle         \* per user: ticks since the shadow client was created or touched

vars ==
  <<dsUsers, ircClients, nickReqs, timers, gists, namesOnce, topicOnce,
    imOpens, nextMsg, crashed, ircSent, slackSent, last, relayed, replied,
    idle>>

\* ------------------------------------------------------------------------
\* Text functions of the Bot
\* ------------------------------------------------------------------------

\* slackName.replace(/\./g, '-')
DotsToDashes(s) == [i \in 1..Len(s) |-> IF s[i] = "." THEN "-" ELSE s[i]]

\* s.substr(0, n)
Substr0(s, n) == SubSeq(s, 1, IF n < 0 THEN 0 ELSE IF n > Len(s) THEN Len(s) ELSE n)

\* this.nickSuffix = options.userNickSuffix || '-sl'            (line 213)
nickSuffixOf(userNickSuffix) ==
  IF userNickSuffix = None THEN <<"-","s","l">> ELSE userNickSuffix

\* Bot.ircNick of a Bot whose this.nickSuffix is suffix     (lines 512..515)
ircNickOf(slackName, suffix) ==
  Substr0(DotsToDashes(slackName), SERVER_NICKLEN - Len(suffix)) \o suffix

\* Bot.ircNick
ircNick(slackName) == ircNickOf(slackName, nickSuffix)

\* the nicks derived from the Slack names the clients were last given
currentShadowNicks_Derived ==
  {Substr0(DotsToDashes(ircClients[u].slackName), SERVER_NICKLEN - Len(nickSuffix))
     \o nickSuffix : u \in DOMAIN ircClients}

\* Bot.currentShadowNicks: the nick of every client in this.ircClients, now
currentShadowNicks == {ircClients[u].nick : u \in DOMAIN ircClients}

\* Bot.isCommandMessage: this.commandCharacters.indexOf(message[0]) !== -1
isCommandMessage(text) == text # <<>> /\ text[1] \in commandCharacters

\* CODE_REGEX = /```([^]*)```/
CODE_REGEX ==
  Lit(<<BQ, BQ, BQ>>) \o <<Star(ClsAny)>> \o Lit(<<BQ, BQ, BQ>>)

GistUrl ==
  <<"h","t","t","p","s",":","/","/","g","i","s","t",".","g","i","t","h","u",
    "b",".","c","o","m","/","1">>

GiphyUrl ==
  <<"h","t","t","p",":","/","/","g","i","p","h","y",".","c","o","m","/","1",
    ".","g","i","f">>


\* the text kept as it is, whatever the gist call returned
ReplaceCode_Keep(text, m) == text

\* message.text.replace(match[0], data['html_url']) for the match m of CODE_REGEX
ReplaceCode(text, m) ==
  SubSeq(text, 1, m.pos - 1) \o GistUrl
    \o SubSeq(text, MatchEnd(m.pos, m.ends), Len(text))

\* .replace(/\n|\r\n|\r/g, ' '): a CR LF pair becomes one space
NewlinesToSpaces(s) ==
  CHOOSE r \in
    {[i \in 1..Len(t) |-> IF t[i] \in {"\n", "\r"} THEN " " ELSE t[i]] :
       t \in {ReplaceLit(s, <<"\r", "\n">>, <<" ">>)}} : TRUE

StrAmp ==
  <<"&","a","m","p",";">>

StrLt ==
  <<"&","l","t",";">>

StrGt ==
  <<"&","g","t",";">>

StrBangChannel ==
  <<"<","!","c","h","a","n","n","e","l",">">>

StrBangGroup ==
  <<"<","!","g","r","o","u","p",">">>

StrBangEveryone ==
  <<"<","!","e","v","e","r","y","o","n","e",">">>

StrAtChannel ==
  <<"@","c","h","a","n","n","e","l">>

StrAtGroup ==
  <<"@","g","r","o","u","p">>

StrAtEveryone ==
  <<"@","e","v","e","r","y","o","n","e">>


\* lines 475..481 of parseText: newlines, entities, broadcast mentions
ParseEntities(text) ==
  CHOOSE t7 \in
    {ReplaceLit(t6, StrBangEveryone, StrAtEveryone) :
       t6 \in {ReplaceLit(t5, StrBangGroup, StrAtGroup) :
       t5 \in {ReplaceLit(t4, StrBangChannel, StrAtChannel) :
       t4 \in {ReplaceLit(t3, StrGt, <<">">>) :
       t3 \in {ReplaceLit(t2, StrLt, <<"<">>) :
       t2 \in {ReplaceLit(t1, StrAmp, <<"&">>) :
       t1 \in {NewlinesToSpaces(text)}}}}}}} : TRUE

\* /<#(C\w+)\|?(\w+)?>/g
PatChannelRef ==
  <<One(ClsChar("<")), One(ClsChar("#")), One(ClsChar("C")), Plus(ClsWord),
    Opt(ClsChar("|")), Star(ClsWord), One(ClsChar(">"))>>

\* /<@(U\w+)\|?(\w+)?>/g
PatUserRef ==
  <<One(ClsChar("<")), One(ClsChar("@")), One(ClsChar("U")), Plus(ClsWord),
    Opt(ClsChar("|")), Star(ClsWord), One(ClsChar(">"))>>

\* /<(?!!)([^|]+?)>/g
PatLink ==
  <<One(ClsChar("<")), One(Cls({"|", "!"}, TRUE)),
    Item(Cls({"|"}, TRUE), 0, FALSE, 0, TRUE), One(ClsChar(">"))>>

\* /<!(\w+)\|?(\w+)?>/g
PatCommandRef ==
  <<One(ClsChar("<")), One(ClsChar("!")), Plus(ClsWord), Opt(ClsChar("|")),
    Star(ClsWord), One(ClsChar(">"))>>

\* /:(\w+):/g
PatEmoji == <<One(ClsChar(":")), Plus(ClsWord), One(ClsChar(":"))>>

\* SLACK_REGEX = /@(\S+)/g
SLACK_REGEX == <<One(ClsChar("@")), Plus(ClsNonSpace)>>

\* /<.+?\|(.+?)>/g
PatLabelled ==
  <<One(ClsChar("<")), PlusLazy(ClsDot), One(ClsChar("|")), PlusLazy(ClsDot),
    One(ClsChar(">"))>>

EmojiSmileName ==
  <<"s","m","i","l","e">>


\* assets/emoji.json (an entry of the table)
emojis == (EmojiSmileName :> <<"EMOJI_SMILE">>)

\* lines 482..485: the callback reads .name of getChannelById(channelId)
ChannelRefThrows(text) ==
  \E ms \in {AllMatches(PatChannelRef, text, 1)} :
    \E i \in 1..Len(ms) : ~KnownChannel(Group(text, ms[i].pos, ms[i].ends, 3, 4))

ReplaceChannelRefs(text) ==
  CHOOSE r \in
    {LET channelId(i) == Group(text, ms[i].pos, ms[i].ends, 3, 4)
         readable(i) == Group(text, ms[i].pos, ms[i].ends, 6, 6)
     IN Rebuild(text, ms,
                [i \in 1..Len(ms) |->
                   IF readable(i) # None THEN readable(i)
                   ELSE <<"#">> \o dsChannels[channelId(i)].name], 1, 1) :
       ms \in {AllMatches(PatChannelRef, text, 1)}} : TRUE

\* lines 486..489: the callback reads .name of getUserById(userId)
UserRefThrows(text) ==
  \E ms \in {AllMatches(PatUserRef, text, 1)} :
    \E i \in 1..Len(ms) : Group(text, ms[i].pos, ms[i].ends, 3, 4) \notin DOMAIN dsUsers

ReplaceUserRefs(text) ==
  CHOOSE r \in
    {LET userId(i) == Group(text, ms[i].pos, ms[i].ends, 3, 4)
         readable(i) == Group(text, ms[i].pos, ms[i].ends, 6, 6)
     IN Rebuild(text, ms,
                [i \in 1..Len(ms) |->
                   IF readable(i) # None THEN readable(i)
                   ELSE <<"@">> \o dsUsers[userId(i)].name], 1, 1) :
       ms \in {AllMatches(PatUserRef, text, 1)}} : TRUE

\* line 490: (match, link) => link
ReplaceLinks(text) ==
  CHOOSE r \in
    {Rebuild(text, ms,
             [i \in 1..Len(ms) |-> Group(text, ms[i].pos, ms[i].ends, 2, 3)], 1, 1) :
       ms \in {AllMatches(PatLink, text, 1)}} : TRUE

\* lines 491..493: `<${label || command}>`
ReplaceCommandRefs(text) ==
  CHOOSE r \in
    {LET command(i) == Group(text, ms[i].pos, ms[i].ends, 3, 3)
         label(i) == Group(text, ms[i].pos, ms[i].ends, 5, 5)
     IN Rebuild(text, ms,
                [i \in 1..Len(ms) |->
                   <<"<">> \o (IF label(i) # None THEN label(i) ELSE command(i))
                     \o <<">">>], 1, 1) :
       ms \in {AllMatches(PatCommandRef, text, 1)}} : TRUE

\* lines 494..500
ReplaceEmojis(text) ==
  CHOOSE r \in
    {LET emoji(i) == Group(text, ms[i].pos, ms[i].ends, 2, 2)
     IN Rebuild(text, ms,
                [i \in 1..Len(ms) |->
                   IF emoji(i) \in DOMAIN emojis THEN emojis[emoji(i)]
                   ELSE Group(text, ms[i].pos, ms[i].ends, 1, 3)], 1, 1) :
       ms \in {AllMatches(PatEmoji, text, 1)}} : TRUE

\* lines 501..507: @name of a user whose shadow client is live -> its nick
ReplaceSlackNames(text) ==
  CHOOSE r \in
    {LET nick(i) == ircNick(Group(text, ms[i].pos, ms[i].ends, 2, 2))
     IN Rebuild(text, ms,
                [i \in 1..Len(ms) |->
                   IF nick(i) \in currentShadowNicks THEN nick(i)
                   ELSE Group(text, ms[i].pos, ms[i].ends, 1, 2)], 1, 1) :
       ms \in {AllMatches(SLACK_REGEX, text, 1)}} : TRUE

\* line 508: (match, readable) => readable
ReplaceLabelled(text) ==
  CHOOSE r \in
    {Rebuild(text, ms,
             [i \in 1..Len(ms) |-> Group(text, ms[i].pos, ms[i].ends, 4, 4)], 1, 1) :
       ms \in {AllMatches(PatLabelled, text, 1)}} : TRUE

\* lines 490..508 of parseText
ParseMarkup(text) ==
  CHOOSE t5 \in
    {ReplaceLabelled(t4) :
       t4 \in {ReplaceSlackNames(t3) :
       t3 \in {ReplaceEmojis(t2) :
       t2 \in {ReplaceCommandRefs(t1) :
       t1 \in {ReplaceLinks(text)}}}}} : TRUE

\* Bot.parseText throws (a reference to an id the dataStore does not know)
parseTextThrows(text) ==
  \E t \in {ParseEntities(text)} :
    \/ ChannelRefThrows(t)
    \/ \E t2 \in {ReplaceChannelRefs(t)} : UserRefThrows(t2)

\* Bot.parseText, when it returns
parseText(text) ==
  CHOOSE t4 \in
    {ParseMarkup(t3) :
       t3 \in {ReplaceUserRefs(t2) :
       t2 \in {ReplaceChannelRefs(t1) :
       t1 \in {ParseEntities(text)}}}} : TRUE

\* new RegExp('^(\\w+)\\s?(\\S+)?\\s?(.*)$', 'i')
PatCommand ==
  <<Plus(ClsWord), Opt(ClsSpace), Star(ClsNonSpace), Opt(ClsSpace), Star(ClsDot)>>

\* message.text.substring(1)
Substring1(s) == IF s = <<>> THEN <<>> ELSE Tail(s)

\* commandString.match(regex) in processCommandMessage: NoMatch or <<ends>>
CommandMatch(messageText) == MatchFrom(PatCommand, 1, Substring1(messageText), 1, TRUE)

\* ------------------------------------------------------------------------
\* Outputs of a step
\* ------------------------------------------------------------------------

\* this.ircClient.say / send / join: a command of the bot's own IRC client.
\* src is the id of the Slack message the step handles (0: none).
IrcOut(cmd, target, text, src) ==
  [client |-> "bot", cmd |-> cmd, target |-> target, text |-> text, src |-> src]

\* a command sent by the shadow client of a user
ShadowOut(user, cmd, text) ==
  [client |-> user, cmd |-> cmd, target |-> None, text |-> text, src |-> 0]

\* slack.rtm.sendMessage(text, channel); req: the request it answers (0: none)
RtmOut(text, channel, req) ==
  [api |-> "rtm.sendMessage", channel |-> channel, text |-> text, req |-> req]

\* slack.web.chat.postMessage(channel, text, {username, icon_url})
PostOut(channel, text, username, iconUrl) ==
  [api |-> "chat.postMessage", channel |-> channel, text |-> text,
   username |-> username, icon_url |-> iconUrl]

\* slack.web.im.open(user, callback)
ImOpenOut(user) == [api |-> "im.open", user |-> user]

\* slack.authpost.channels.setTopic(channel, topic)
SetTopicOut(channel, topic, req) ==
  [api |-> "channels.setTopic", channel |-> channel, text |-> topic, req |-> req]

\* An uncaught exception in a handler: Node ends the process, unless the host
\* process installed an uncaughtException handler.
Throws == crashed' \in BOOLEAN

\* ------------------------------------------------------------------------
\* Commands (helpers.js, Bot.processCommandMessage)
\* ------------------------------------------------------------------------

CmdOnline ==
  <<"o","n","l","i","n","e">>

CmdIrcTopic ==
  <<"i","r","c","t","o","p","i","c">>

CmdHelp ==
  <<"h","e","l","p">>

CmdTopic ==
  <<"t","o","p","i","c">>

CmdMsg ==
  <<"m","s","g">>


\* Bot.getIRCChannel, for a channel id the dataStore knows
getIRCChannel(slackChannelID) == channelMapping(ChannelName(slackChannelID))

\* What processCommandMessage(message) does, as a record:
\*   threw: it throws;  irc, slack: what it sends;
\*   names, topic: the once-listeners it registers.
NoEffect == [threw |-> FALSE, irc |-> <<>>, slack |-> <<>>, names |-> <<>>, topic |-> <<>>]

\* onlineIRCUsers(message, query)                              (lines 55..86)
onlineIRCUsers(message, query) ==
  LET ircChannel == getIRCChannel(message.channel)
  IN IF ircChannel = None THEN NoEffect
     ELSE [NoEffect EXCEPT
             !.names = <<[req |-> message.id, channel |-> message.channel,
                          user |-> message.user, query |-> query,
                          ircChannel |-> ircChannel]>>,
             !.irc = <<IrcOut("NAMES", ircChannel, None, message.id)>>]

\* ircTopic(message)                                          (lines 91..100)
ircTopic(message) ==
  LET ircChannel == getIRCChannel(message.channel)
  IN IF ircChannel = None THEN NoEffect
     ELSE [NoEffect EXCEPT
             !.topic = <<[req |-> message.id, kind |-> "irctopic",
                          channel |-> message.channel, ircChannel |-> ircChannel]>>,
             !.irc = <<IrcOut("TOPIC", ircChannel, None, message.id)>>]

\* setNewTopic(message, argument, data)                      (lines 102..115)
\* argument.split(" ") throws when the command has no argument.
setNewTopic(message, argument, data) ==
  LET ircChannel == getIRCChannel(message.channel)
  IN IF ircChannel = None THEN NoEffect
     ELSE IF argument = None THEN [NoEffect EXCEPT !.threw = TRUE]
     ELSE [NoEffect EXCEPT
             !.topic = <<[req |-> message.id, kind |-> "topic",
                          channel |-> message.channel, ircChannel |-> ircChannel]>>,
             !.irc = <<IrcOut("TOPIC", ircChannel, argument \o <<" ">> \o data,
                              message.id)>>]

\* commandHelp(message)                                      (lines 119..135)
commandHelp(message) ==
  [NoEffect EXCEPT !.slack = <<RtmOut(StrHelp, message.channel, 0)>>]

\* case 'msg' (lines 743..749): priv is not defined (line 721 is commented
\* out), so the call priv(...) throws a ReferenceError
msgCommand(message, argument, remaining) ==
  IF remaining # None THEN [NoEffect EXCEPT !.threw = TRUE]
  ELSE [NoEffect EXCEPT !.slack = <<RtmOut(StrMustSupply, message.channel, 0)>>]

\* Bot.processCommandMessage                                 (lines 713..754)
processCommandMessage(message) ==
  CHOOSE r \in
    {IF match = NoMatch THEN NoEffect
     ELSE CHOOSE e \in
            {CASE command = CmdOnline -> onlineIRCUsers(message, argument)
               [] command = CmdIrcTopic -> ircTopic(message)
               [] command = CmdHelp -> commandHelp(message)
               [] command = CmdTopic -> setNewTopic(message, argument, remaining)
               [] command = CmdMsg -> msgCommand(message, argument, remaining)
               [] OTHER -> NoEffect :
               command \in {Group(commandString, 1, match[1], 1, 1)},
               argument \in {Group(commandString, 1, match[1], 3, 3)},
               remaining \in {Group(commandString, 1, match[1], 5, 5)}} : TRUE :
       commandString \in {Substring1(message.text)},
       match \in {CommandMatch(message.text)}} : TRUE

\* ------------------------------------------------------------------------
\* Slack -> IRC (Bot.sendToIRC, lines 526..571)
\* ------------------------------------------------------------------------

\* sendToIRCDrops without the test of muteUsers.slack
sendToIRCDrops_NoMute(message) ==
  \/ ~KnownChannelGroupOrDM(message.channel)
  \/ muteSlackbot /\ message.user = USLACKBOT
  \/ channelMapping(ChannelName(message.channel)) = None

\* sendToIRCDrops without the test of the channel mapping
sendToIRCDrops_NoMapping(message) ==
  \/ ~KnownChannelGroupOrDM(message.channel)
  \/ muteSlackbot /\ message.user = USLACKBOT
  \/ dsUsers[message.user].name \in muteUsers.slack

\* the message is dropped before any text is looked at     (lines 528..551)
sendToIRCDrops(message) ==
  \/ ~KnownChannelGroupOrDM(message.channel)
  \/ muteSlackbot /\ message.user = USLACKBOT
  \/ dsUsers[message.user].name \in muteUsers.slack
  \/ channelMapping(ChannelName(message.channel)) = None

\* the line said for a message that is not a command        (lines 558..567)
FormatLine(message, userName, text) ==
  CASE message.subtype = "none" -> <<"<">> \o userName \o <<">", " ">> \o text
    [] message.subtype = "me_message" -> StrAction \o userName \o <<" ">> \o text
    [] OTHER -> text

\* What sendToIRC(message) does:
\*   outcome: "dropped", "threw", "command" or "relayed"
sendToIRC(message) ==
  IF sendToIRCDrops(message)
  THEN [outcome |-> "dropped", eff |-> NoEffect]
  ELSE IF parseTextThrows(message.text)
       THEN [outcome |-> "threw", eff |-> NoEffect]
       ELSE CHOOSE r \in
              {IF isCommandMessage(text)
               THEN CHOOSE e \in
                      {IF c.threw
                       THEN [outcome |-> "threw", eff |-> [c EXCEPT !.irc = <<>>]]
                       ELSE [outcome |-> "command",
                             eff |-> [c EXCEPT !.irc = c.irc \o
                               <<IrcOut("say", ircChannel,
                                        StrCommandSentBy \o userName \o <<":">>,
                                        message.id),
                                 IrcOut("say", ircChannel, text, message.id)>>]] :
                         c \in {processCommandMessage(message)}} : TRUE
               ELSE [outcome |-> "relayed",
                     eff |-> [NoEffect EXCEPT !.irc =
                                <<IrcOut("say", ircChannel,
                                         FormatLine(message, userName, text),
                                         message.id)>>]] :
                 userName \in {dsUsers[message.user].name},
                 ircChannel \in {channelMapping(ChannelName(message.channel))},
                 text \in {parseText(message.text)}} : TRUE

\* ------------------------------------------------------------------------
\* IRC -> Slack (Bot.sendToSlack, lines 574..627, and its text functions)
\* ------------------------------------------------------------------------

\* text.split(' ')
RECURSIVE SplitSpaces(_, _)
SplitSpaces(s, word) ==
  IF s = <<>> THEN <<word>>
  ELSE IF s[1] = " " THEN <<word>> \o SplitSpaces(Tail(s), <<>>)
       ELSE SplitSpaces(Tail(s), Append(word, s[1]))

\* words.join(sep)
RECURSIVE Join(_, _)
Join(words, sep) ==
  IF words = <<>> THEN <<>>
  ELSE IF Len(words) = 1 THEN words[1]
       ELSE words[1] \o sep \o Join(Tail(words), sep)

\* the regular expression `${user}` of a user name: a `.` of the name is the
\* wildcard, every other character of a name stands for itself
PatOfName(user) ==
  [i \in 1..Len(user) |-> IF user[i] = "." THEN One(ClsDot) ELSE One(ClsChar(user[i]))]

\* word.indexOf(prefix) === 0
StartsWith(word, prefix) ==
  Len(word) >= Len(prefix) /\ SubSeq(word, 1, Len(prefix)) = prefix

\* highlightUsername(user, text)                               (lines 36..53)
highlightUsername(user, text) ==
  LET words == SplitSpaces(text, <<>>)
      \* new RegExp(`^${user}[,.:!?]?$`)
      userRegExp == PatOfName(user) \o <<Opt(Cls({",", ".", ":", "!", "?"}, FALSE))>>
      mapped == [i \in 1..Len(words) |->
                   IF StartsWith(words[i], <<"@">> \o user) THEN words[i]
                   ELSE IF MatchFrom(userRegExp, 1, words[i], 1, TRUE) # NoMatch
                        THEN <<"@">> \o words[i]
                        ELSE words[i]]
  IN Join(mapped, <<" ">>)

\* Bot.currentChannelUsernames: the names of the members, in order
currentChannelUsernames(channelId) ==
  [i \in 1..Len(dsChannels[channelId].members) |->
     dsUsers[dsChannels[channelId].members[i]].name]

\* Bot.mapSlackUsers: reduce over the member names             (lines 650..654)
RECURSIVE HighlightAll(_, _)
HighlightAll(names, text) ==
  IF names = <<>> THEN text
  ELSE HighlightAll(Tail(names), highlightUsername(names[1], text))

mapSlackUsers(channelId, text) == HighlightAll(currentChannelUsernames(channelId), text)

\* this.nickRegex = new RegExp(`@?(\\S+${this.nickSuffix}\\d?)`, 'g')
nickRegex ==
  <<Opt(ClsChar("@")), Plus(ClsNonSpace)>> \o PatOfName(nickSuffix) \o <<Opt(ClsDigit)>>

\* Bot.replaceUsernames: a live shadow nick -> the Slack name of its user
replaceUsernames(text) ==
  CHOOSE r \in
    {LET slackNick(i) == Group(text, ms[i].pos, ms[i].ends, 2, Len(nickRegex))
         owners(i) == {u \in DOMAIN ircClients : ircClients[u].nick = slackNick(i)}
     IN Rebuild(text, ms,
                [i \in 1..Len(ms) |->
                   IF owners(i) # {}
                   THEN ircClients[CHOOSE u \in owners(i) : TRUE].slackName
                   ELSE Group(text, ms[i].pos, ms[i].ends, 1, Len(nickRegex))], 1, 1) :
       ms \in {AllMatches(nickRegex, text, 1)}} : TRUE

\* the IRC control characters \x02 (bold), \x03 (colour), \x0F (reset)
CtlBold == "x02"

CtlColor == "x03"

CtlReset == "x0F"

\* /\x03\d{2}(.+?)\x0F/g
PatColor ==
  <<One(ClsChar(CtlColor)), Times(ClsDigit, 2), PlusLazy(ClsDot), One(ClsChar(CtlReset))>>

\* /\x02(.+?)\x0F/g
PatBold == <<One(ClsChar(CtlBold)), PlusLazy(ClsDot), One(ClsChar(CtlReset))>>

\* .replace(/\x03\d{2}(.+?)\x0F/g, '`$1`')
ConvertColor(text) ==
  CHOOSE r \in
    {Rebuild(text, ms,
             [i \in 1..Len(ms) |->
                <<BQ>> \o Group(text, ms[i].pos, ms[i].ends, 3, 3) \o <<BQ>>], 1, 1) :
       ms \in {AllMatches(PatColor, text, 1)}} : TRUE

\* .replace(/\x02(.+?)\x0F/g, '*$1*')
ConvertBold(text) ==
  CHOOSE r \in
    {Rebuild(text, ms,
             [i \in 1..Len(ms) |->
                <<"*">> \o Group(text, ms[i].pos, ms[i].ends, 2, 2) \o <<"*">>], 1, 1) :
       ms \in {AllMatches(PatBold, text, 1)}} : TRUE

\* Bot.convertFormatting                                       (lines 680..683)
convertFormatting(text) ==
  CHOOSE r \in {ConvertBold(converted) : converted \in {ConvertColor(text)}} : TRUE

StrAvatarPrefix ==
  <<"h","t","t","p",":","/","/","a","p","i",".","a","d","o","r","a","b","l",
    "e",".","i","o","/","a","v","a","t","a","r","s","/","4","8","/">>

StrAvatarSuffix ==
  <<".","p","n","g">>


\* sendToSlackDrops without the test of is_member
sendToSlackDrops_NoMemberCheck(author, channel) ==
  \/ invertedMapping(toLowerCase(channel)) = None
  \/ ChannelOrGroupIdsByName(StripHash(invertedMapping(toLowerCase(channel)))) = {}
  \/ author \in muteUsers.irc
  \/ author \in currentShadowNicks

\* the message never reaches the text functions             (lines 575..602)
sendToSlackDrops(author, channel) ==
  LET slackChannelName == invertedMapping(toLowerCase(channel))
      ids == ChannelOrGroupIdsByName(StripHash(slackChannelName))
  IN \/ slackChannelName = None
     \/ ids = {}
     \/ \E id \in ids : ~dsChannels[id].is_member /\ ~dsChannels[id].is_group
     \/ author \in muteUsers.irc
     \/ author \in currentShadowNicks

\* What sendToSlack(author, channel, text) posts: <<>> or one postMessage
sendToSlack(author, channel, text) ==
  IF sendToSlackDrops(author, channel) THEN <<>>
  ELSE LET \* avatarUrl.replace(/\$username/g, author), unless the bot is the author
           iconUrl == IF author # nickname
                      THEN StrAvatarPrefix \o author \o StrAvatarSuffix
                      ELSE None
       IN CHOOSE r \in
            {CHOOSE e \in
               {<<PostOut(id, mappedText, author \o StrIrcSuffix, iconUrl)>> :
                  mappedText \in
                    {mapSlackUsers(id, convertedText) :
                       convertedText \in
                         {convertFormatting(replacedText) :
                            replacedText \in {replaceUsernames(text)}}}} : TRUE :
               id \in ChannelOrGroupIdsByName(
                        StripHash(invertedMapping(toLowerCase(channel))))} : TRUE

\* ------------------------------------------------------------------------
\* The replies to NAMES and TOPIC (the once-listeners of helpers.js)
\* ------------------------------------------------------------------------

\* the printable ASCII characters in the order of their codes
Ascii ==
  <<" ","!","\"","#","$","%","&","'","(",")","*","+",",","-",".","/","0",
    "1","2","3","4","5","6","7","8","9",":",";","<","=",">","?","@","A","B",
    "C","D","E","F","G","H","I","J","K","L","M","N","O","P","Q","R","S","T",
    "U","V","W","X","Y","Z","[","\\","]","^","_",BQ,"a","b","c","d","e","f",
    "g","h","i","j","k","l","m","n","o","p","q","r","s","t","u","v","w","x",
    "y","z","{","|","}","~">>

CodeOf(c) == CHOOSE i \in 1..Len(Ascii) : Ascii[i] = c

\* a < b as Array.prototype.sort compares strings (by code unit)
StrLess(a, b) ==
  \E k \in 1..(Len(b)) :
    /\ \A j \in 1..(k - 1) : j <= Len(a) /\ a[j] = b[j]
    /\ k > Len(a) \/ CodeOf(a[k]) < CodeOf(b[k])

\* names.sort()
RECURSIVE Insert(_, _)
Insert(sorted, x) ==
  IF sorted = <<>> THEN <<x>>
  ELSE IF StrLess(x, sorted[1]) THEN <<x>> \o sorted
       ELSE <<sorted[1]>> \o Insert(Tail(sorted), x)

RECURSIVE Sort(_)
Sort(names) ==
  IF names = <<>> THEN <<>> ELSE Insert(Sort(Tail(names)), names[1])

\* RegExp(query, 'i') throws a SyntaxError: an unterminated group
QueryThrows(query) ==
  /\ \E i \in 1..Len(query) : query[i] = "("
  /\ ~\E i \in 1..Len(query) : query[i] = ")"

\* name.match(RegExp(query, 'i')) !== null, for a query of name characters
QueryMatches(query, name) ==
  Search(PatOfName(toLowerCase(query)), toLowerCase(name), 1) # NoMatch

\* the names of userNames that match, in order                (lines 71..76)
RECURSIVE Matched(_, _)
Matched(userNames, query) ==
  IF userNames = <<>> THEN <<>>
  ELSE (IF QueryMatches(query, userNames[1]) THEN <<userNames[1]>> ELSE <<>>)
         \o Matched(Tail(userNames), query)

\* the reply to `.online query`                               (lines 77..81)
OnlineQueryReply(userNames, query) ==
  LET matched == Matched(userNames, query)
  IN IF Len(matched) > 0
     THEN <<"'">> \o query \o StrMatchedUsers \o Join(Sort(matched), <<",", " ">>)
     ELSE StrNoUsersOnline \o query \o <<"'", ".">>

\* the reply to `.online`, sent once the DM is open           (lines 66..68)
OnlineAllReply(userNames, ircChannel) ==
  StrFollowingUsers \o ircChannel \o <<":", " ">> \o Join(Sort(userNames), <<",", " ">>)

\* emit('names', chan, names) to the once-listeners ls, in order. A listener
\* is removed before it runs; when one throws, those after it are not run and
\* stay registered.
NoFire == [threw |-> FALSE, slack |-> <<>>, ims |-> <<>>, rest |-> <<>>, done |-> <<>>]

RECURSIVE FireNames(_, _)
FireNames(ls, userNames) ==
  IF ls = <<>> THEN NoFire
  ELSE LET l == ls[1]
       IN IF l.query = None
          THEN LET r == FireNames(Tail(ls), userNames)
               IN [r EXCEPT !.slack = <<ImOpenOut(l.user)>> \o @,
                            !.ims = <<[req |-> l.req, user |-> l.user,
                                       userNames |-> userNames,
                                       ircChannel |-> l.ircChannel]>> \o @]
          ELSE IF userNames # <<>> /\ QueryThrows(l.query)
               THEN [NoFire EXCEPT !.threw = TRUE, !.rest = Tail(ls)]
               ELSE LET r == FireNames(Tail(ls), userNames)
                    IN [r EXCEPT
                          !.slack = <<RtmOut(OnlineQueryReply(userNames, l.query),
                                             l.channel, l.req)>> \o @,
                          !.done = <<l.req>> \o @]

\* emit('topic', chan, topic) to the once-listeners ls, in order
RECURSIVE FireTopic(_, _)
FireTopic(ls, topic) ==
  IF ls = <<>> THEN NoFire
  ELSE LET l == ls[1]
           r == FireTopic(Tail(ls), topic)
           reply == RtmOut(StrIrcTopic \o topic, l.channel, l.req)
       IN [r EXCEPT
             !.slack = (IF l.kind = "topic"
                        THEN <<SetTopicOut(l.channel, topic, l.req), reply>>
                        ELSE <<reply>>) \o @,
             !.done = <<l.req>> \o @]

\* ------------------------------------------------------------------------
\* Bounds and inputs
\* ------------------------------------------------------------------------

\* message events, of Slack and of IRC, in a run
MaxMsgs == 2

\* timeouts pending at once
MaxTimers == 2

\* NICK commands of one shadow client awaiting the server's answer
MaxNickReqs == 1

\* this.ircTimeout, in ticks of the clock
ircTimeout == 2

TxtHi ==
  <<"h","i">>

TxtOnline ==
  <<".","o","n","l","i","n","e">>

TxtOnlineAl ==
  <<".","o","n","l","i","n","e"," ","a","l">>

TxtOnlineBad ==
  <<".","o","n","l","i","n","e"," ","(">>

TxtIrcTopic ==
  <<".","i","r","c","t","o","p","i","c">>

TxtTopicNew ==
  <<".","t","o","p","i","c"," ","n","e","w"," ","o","n","e">>

TxtTopicBare ==
  <<".","t","o","p","i","c">>

TxtHelp ==
  <<".","h","e","l","p">>

TxtMsg ==
  <<".","m","s","g"," ","b","o","b"," ","h","e","l","l","o">>

TxtMsgBare ==
  <<".","m","s","g"," ","b","o","b">>

TxtCode ==
  <<"a"," ",BQ,BQ,BQ,"x",BQ,BQ,BQ," ","b">>

IrcTxtHi ==
  <<"h","i"," ","a","l">>

TopicOld ==
  <<"o","l","d">>

ShadowAl ==
  <<"a","l","-","s","l">>

ShadowADotL ==
  <<"a","-","l","-","s","l">>


\* message.subtype ("none": the message has no subtype)
MsgSubtypes == {"none", "me_message", "file_share", "channel_join"}

ALLOWED_SUBTYPES == {"me_message"}

\* the names a user may take (Slack names are unique)
NamesOf(u) ==
  IF u = U1 THEN {NameAl, NameADotL}
  ELSE IF u = U2 THEN {NameMal, NameBo}
  ELSE {NameSlackbot}

Presences == {"active", "away"}

IrcChannels == {IrcGen, IrcGenUpper, IrcOps, IrcDev, IrcOther}

\* the member lists of a NAMES reply, in the order the server gives them
NamesReplies == {<<>>, <<NickBob, NickAmy, ShadowAl>>}

Topics == {TopicOld, <<"n", "e", "w", " ", "o", "n", "e">>}

\* f without the key k
Without(f, k) == [x \in DOMAIN f \ {k} |-> f[x]]

\* ------------------------------------------------------------------------
\* Initial state: a connected Bot, nobody active, nothing pending
\* ------------------------------------------------------------------------

EmptyFn == [x \in {} |-> 0]

sessionVars == <<ircClients, nickReqs, timers, idle>>

pendingVars == <<gists, namesOnce, topicOnce, imOpens, relayed, replied>>

relayVars == <<pendingVars, nextMsg>>

Init ==
  /\ dsUsers = (U1 :> [name |-> NameAl, presence |-> "away"])
            @@ (U2 :> [name |-> NameMal, presence |-> "away"])
            @@ (USLACKBOT :> [name |-> NameSlackbot, presence |-> "active"])
  /\ ircClients = EmptyFn
  /\ nickReqs = [u \in Users |-> <<>>]
  /\ timers = {}
  /\ idle = [u \in Users |-> 0]
  /\ gists = EmptyFn
  /\ namesOnce = <<>>
  /\ topicOnce = <<>>
  /\ imOpens = <<>>
  /\ nextMsg = 0
  /\ crashed = FALSE
  /\ ircSent = <<>>
  /\ slackSent = <<>>
  /\ last = [op |-> "init"]
  /\ relayed = <<>>
  /\ replied = <<>>

\* ------------------------------------------------------------------------
\* Slack message events (the RTM_EVENTS.MESSAGE handler, lines 301..389)
\* ------------------------------------------------------------------------

\* the effects of a call of sendToIRC whose result is r
ApplySendToIRC(message, r) ==
  /\ ircSent' = r.eff.irc
  /\ slackSent' = r.eff.slack
  /\ namesOnce' = namesOnce \o r.eff.names
  /\ topicOnce' = topicOnce \o r.eff.topic
  /\ relayed' = IF r.outcome \in {"relayed", "command"}
                THEN Append(relayed, message.id) ELSE relayed
  /\ IF r.outcome = "threw" THEN Throws ELSE crashed' = crashed

RtmMessage(user, channel, text0, subtype, attachments) ==
  /\ ~crashed
  /\ nextMsg < MaxMsgs
  /\ nextMsg' = nextMsg + 1
  /\ \E message \in
          {[id |-> nextMsg + 1, user |-> user, channel |-> channel,
            \* line 312: message.text += `Posted from Giphy: ...`
            text |-> IF attachments THEN text0 \o StrGiphy \o GiphyUrl ELSE text0,
            subtype |-> subtype]} :
      \E code \in {Search(CODE_REGEX, message.text, 1)} :
        IF subtype = "none" \/ subtype \in ALLOWED_SUBTYPES
        THEN IF code # NoMatch
             THEN \* gist(...) is called; sendToIRC waits for its callback
                  /\ gists' = gists @@ ((nextMsg + 1) :> [message |-> message,
                                                        match |-> code[1]])
                  /\ last' = [op |-> "message", msg |-> message, outcome |-> "suspended"]
                  /\ ircSent' = <<>>
                  /\ slackSent' = <<>>
                  /\ UNCHANGED <<namesOnce, topicOnce, relayed, crashed>>
             ELSE \E r \in {sendToIRC(message)} :
                    /\ ApplySendToIRC(message, r)
                    /\ last' = [op |-> "message", msg |-> message,
                                outcome |-> r.outcome]
                    /\ UNCHANGED gists
        ELSE IF subtype = "file_share"
             THEN \* a snippet or an image: request.get(...), and request is
                  \* not defined (a ReferenceError)
                  /\ Throws
                  /\ last' = [op |-> "message", msg |-> message, outcome |-> "threw"]
                  /\ ircSent' = <<>>
                  /\ slackSent' = <<>>
                  /\ UNCHANGED <<gists, namesOnce, topicOnce, relayed>>
             ELSE \* every other subtype is ignored
                  /\ last' = [op |-> "message", msg |-> message, outcome |-> "ignored"]
                  /\ ircSent' = <<>>
                  /\ slackSent' = <<>>
                  /\ UNCHANGED <<gists, namesOnce, topicOnce, relayed, crashed>>
  /\ UNCHANGED <<dsUsers, sessionVars, imOpens, replied>>

\* the callback of gist(...) for the pending message id     (lines 322..327)
GistDone(id, err) ==
  /\ ~crashed
  /\ id \in DOMAIN gists
  /\ \E message \in
          {IF err THEN gists[id].message
           ELSE [gists[id].message EXCEPT !.text = ReplaceCode(@, gists[id].match)]} :
      \E r \in {sendToIRC(message)} :
        /\ ApplySendToIRC(message, r)
        /\ last' = [op |-> "gist", msg |-> message, orig |-> gists[id].message.text,
                    err |-> err, outcome |-> r.outcome]
  /\ gists' = Without(gists, id)
  /\ UNCHANGED <<dsUsers, sessionVars, imOpens, nextMsg, replied>>

\* ------------------------------------------------------------------------
\* IRC events (the ircClient listeners, lines 407..468, and the
\* once-listeners of helpers.js)
\* ------------------------------------------------------------------------

\* the text sendToSlack is given for an event of this kind  (lines 407..417)
FormatIrc(kind, text) ==
  CASE kind = "message" -> text
    [] kind = "notice" -> <<"*">> \o text \o <<"*">>
    [] kind = "action" -> <<"_">> \o text \o <<"_">>

\* 'message', 'notice', 'action'
IrcEvent(kind, author, channel, text) ==
  /\ ~crashed
  /\ nextMsg < MaxMsgs
  /\ nextMsg' = nextMsg + 1
  /\ slackSent' = sendToSlack(author, channel, FormatIrc(kind, text))
  /\ ircSent' = <<>>
  /\ last' = [op |-> "irc", kind |-> kind, author |-> author, channel |-> channel,
              text |-> text]
  /\ UNCHANGED <<dsUsers, sessionVars, pendingVars, crashed>>

\* the notice of a status change                            (lines 450..468)
StatusText(kind, nick) ==
  <<"*">> \o nick \o
    (CASE kind = "join" -> StrJoined [] kind = "part" -> StrLeft [] kind = "quit" -> StrQuit)

RECURSIVE StatusPosts(_, _, _)
StatusPosts(kind, nick, channels) ==
  IF channels = <<>> THEN <<>>
  ELSE sendToSlack(nickname, channels[1], StatusText(kind, nick))
         \o StatusPosts(kind, nick, Tail(channels))

\* 'join', 'part' (one channel) and 'quit' (the channels the nick was in)
IrcStatus(kind, nick, channels) ==
  /\ ~crashed
  /\ nextMsg < MaxMsgs
  /\ nextMsg' = nextMsg + 1
  /\ kind = "join" => ircStatusNotices.join /\ Len(channels) = 1
  /\ kind = "part" => ircStatusNotices.leave /\ Len(channels) = 1
  /\ kind = "quit" => ircStatusNotices.leave
  /\ slackSent' = IF kind = "join" /\ nick = nickname THEN <<>>
                  ELSE StatusPosts(kind, nick, channels)
  /\ ircSent' = <<>>
  /\ last' = [op |-> "status", kind |-> kind, author |-> nickname, nick |-> nick,
              channels |-> channels]
  /\ UNCHANGED <<dsUsers, sessionVars, pendingVars, crashed>>

\* 'invite': join when the channel, as written, is mapped   (lines 419..427)
IrcInvite(channel) ==
  /\ ~crashed
  /\ nextMsg < MaxMsgs
  /\ nextMsg' = nextMsg + 1
  /\ ircSent' = IF invertedMapping(channel) # None
                THEN <<IrcOut("join", channel, None, 0)>> ELSE <<>>
  /\ slackSent' = <<>>
  /\ last' = [op |-> "invite", channel |-> channel]
  /\ UNCHANGED <<dsUsers, sessionVars, pendingVars, crashed>>

\* the requests a list of once-listeners stands for
ReqsOf(ls) == [i \in 1..Len(ls) |-> [req |-> ls[i].req, ircChannel |-> ls[i].ircChannel]]

\* 'names': the member list of chan. The listener of line 429 returns at once
\* (this.ircNameList is null); then the once-listeners run.
IrcNames(chan, names) ==
  /\ ~crashed
  /\ \E r \in {FireNames(namesOnce, names)} :
        /\ namesOnce' = r.rest
        /\ slackSent' = r.slack
        /\ imOpens' = imOpens \o r.ims
        /\ replied' = replied \o r.done
        /\ IF r.threw THEN Throws ELSE crashed' = crashed
        /\ last' = [op |-> "names", chan |-> chan, names |-> names,
                    fired |-> ReqsOf(SubSeq(namesOnce, 1, Len(namesOnce) - Len(r.rest))),
                    threw |-> r.threw]
  /\ ircSent' = <<>>
  /\ UNCHANGED <<dsUsers, sessionVars, gists, topicOnce, nextMsg, relayed>>

\* 'topic' with listeners registered by `on`: they stay after they ran
IrcTopic_On(chan, topic) ==
  /\ ~crashed
  /\ \E r \in {FireTopic(topicOnce, topic)} :
        /\ topicOnce' = topicOnce
        /\ slackSent' = r.slack
        /\ replied' = replied \o r.done
        /\ last' = [op |-> "topic", chan |-> chan, topic |-> topic,
                    fired |-> ReqsOf(topicOnce), threw |-> FALSE]
  /\ ircSent' = <<>>
  /\ UNCHANGED <<dsUsers, sessionVars, gists, namesOnce, imOpens, nextMsg,
                 relayed, crashed>>

\* 'topic': the topic of chan
IrcTopic(chan, topic) ==
  /\ ~crashed
  /\ \E r \in {FireTopic(topicOnce, topic)} :
        /\ topicOnce' = r.rest
        /\ slackSent' = r.slack
        /\ replied' = replied \o r.done
        /\ last' = [op |-> "topic", chan |-> chan, topic |-> topic,
                    fired |-> ReqsOf(topicOnce), threw |-> FALSE]
  /\ ircSent' = <<>>
  /\ UNCHANGED <<dsUsers, sessionVars, gists, namesOnce, imOpens, nextMsg,
                 relayed, crashed>>

\* the callback of slack.web.im.open for the i-th pending call (lines 65..69)
ImOpened(i) ==
  /\ ~crashed
  /\ i \in 1..Len(imOpens)
  /\ slackSent' = <<RtmOut(OnlineAllReply(imOpens[i].userNames, imOpens[i].ircChannel),
                           DmOf(imOpens[i].user), imOpens[i].req)>>
  /\ imOpens' = SubSeq(imOpens, 1, i - 1) \o SubSeq(imOpens, i + 1, Len(imOpens))
  /\ replied' = Append(replied, imOpens[i].req)
  /\ ircSent' = <<>>
  /\ last' = [op |-> "imOpen", req |-> imOpens[i].req, user |-> imOpens[i].user]
  /\ UNCHANGED <<dsUsers, sessionVars, gists, namesOnce, topicOnce, nextMsg,
                 relayed, crashed>>

\* ------------------------------------------------------------------------
\* Shadow clients: presence, renames, away timers
\* ------------------------------------------------------------------------

\* a handle that no timeout of pending and no client holds
NewTimerId(pending) ==
  LET used == {t.id : t \in pending} \cup {ircClients[u].timer : u \in DOMAIN ircClients}
  IN CHOOSE i \in 1..(Cardinality(used) + 1) : i \notin used

\* Bot.startAwayTimer(user) for a user with a client (lines 692..699):
\* client.timer = setTimeout(() => this.deleteClient(user, message),
\* this.ircTimeout * 1000). The result: the handle, and the pending timeouts.
startAwayTimer(u, pending) ==
  [timer |-> NewTimerId(pending),
   timers |-> pending \cup
                {[id |-> NewTimerId(pending), user |-> u, left |-> ircTimeout]}]

\* what Bot.clearAwayTimer(user) leaves pending (lines 701..706):
\* clearTimeout(client.timer)
clearAwayTimer(u, pending) ==
  IF u \in DOMAIN ircClients
  THEN {t \in pending : t.id # ircClients[u].timer}
  ELSE pending

\* Bot.connectNewClient(user): a client for a user who has none, with the
\* nick derived from the user's name, and its away timer started
connectNewClient(u, name) ==
  /\ ircClients' = ircClients @@
       (u :> [nick |-> ircNick(name), slackName |-> name,
              timer |-> startAwayTimer(u, timers).timer])
  /\ timers' = startAwayTimer(u, timers).timers
  /\ idle' = [idle EXCEPT ![u] = 0]
  /\ nickReqs' = [nickReqs EXCEPT ![u] = <<>>]
  /\ ircSent' = <<ShadowOut(u, "connect", ircNick(name))>>

\* Bot.deleteClient(user): the timer of the client is cancelled, the client
\* is removed and disconnects; nothing when the user has no client
deleteClient(u, fired) ==
  IF u \in DOMAIN ircClients
  THEN /\ ircClients' = Without(ircClients, u)
       /\ timers' = {t \in timers \ {fired} : t.id # ircClients[u].timer}
       /\ nickReqs' = [nickReqs EXCEPT ![u] = <<>>]
       /\ idle' = [idle EXCEPT ![u] = 0]
       /\ ircSent' = <<ShadowOut(u, "disconnect", None)>>
  ELSE /\ timers' = timers \ {fired}
       /\ ircSent' = <<>>
       /\ UNCHANGED <<ircClients, nickReqs, idle>>

\* a presence handler that does not look at the presence of the event
UserChange_AnyPresence(u, name, presence) ==
  /\ ~crashed
  /\ dsUsers' = [dsUsers EXCEPT ![u] = [name |-> name, presence |-> presence]]
  /\ slackSent' = <<>>
  /\ IF u \notin DOMAIN ircClients
     THEN /\ Cardinality(timers) < MaxTimers
          /\ connectNewClient(u, name)
          /\ last' = [op |-> "userChange", user |-> u, presence |-> presence,
                      step |-> "connect"]
     ELSE /\ ircSent' = <<>>
          /\ last' = [op |-> "userChange", user |-> u, presence |-> presence,
                      step |-> "none"]
          /\ UNCHANGED sessionVars
  /\ UNCHANGED <<relayVars, crashed>>

\* the RTM_EVENTS.USER_CHANGE handler (lines 391..404). The dataStore has
\* taken the user of the event over before the handler runs.
UserChange(u, name, presence) ==
  /\ ~crashed
  /\ dsUsers' = [dsUsers EXCEPT ![u] = [name |-> name, presence |-> presence]]
  /\ slackSent' = <<>>
  /\ IF presence # "active"
     THEN /\ ircSent' = <<>>
          /\ last' = [op |-> "userChange", user |-> u, presence |-> presence,
                      step |-> "ignored"]
          /\ UNCHANGED sessionVars
     ELSE IF u \notin DOMAIN ircClients
          THEN /\ Cardinality(timers) < MaxTimers
               /\ connectNewClient(u, name)
               /\ last' = [op |-> "userChange", user |-> u, presence |-> presence,
                           step |-> "connect"]
          ELSE IF ircNick(name) # ircClients[u].nick
               THEN /\ Len(nickReqs[u]) < MaxNickReqs
                    /\ ircSent' = <<ShadowOut(u, "NICK", ircNick(name))>>
                    /\ ircClients' = [ircClients EXCEPT ![u].slackName = name]
                    /\ nickReqs' = [nickReqs EXCEPT ![u] = Append(@, ircNick(name))]
                    /\ last' = [op |-> "userChange", user |-> u,
                                presence |-> presence, step |-> "rename"]
                    /\ UNCHANGED <<timers, idle>>
               ELSE /\ ircSent' = <<>>
                    /\ last' = [op |-> "userChange", user |-> u,
                                presence |-> presence, step |-> "none"]
                    /\ UNCHANGED sessionVars
  /\ UNCHANGED <<relayVars, crashed>>

\* the IRC server answers the NICK command of a shadow client: the irc
\* library sets client.nick
NickConfirm(u) ==
  /\ ~crashed
  /\ u \in DOMAIN ircClients
  /\ nickReqs[u] # <<>>
  /\ ircClients' = [ircClients EXCEPT ![u].nick = Head(nickReqs[u])]
  /\ nickReqs' = [nickReqs EXCEPT ![u] = Tail(@)]
  /\ ircSent' = <<>>
  /\ slackSent' = <<>>
  /\ last' = [op |-> "nickConfirm", user |-> u]
  /\ UNCHANGED <<dsUsers, timers, idle, relayVars, crashed>>

StartAwayTimer(u) ==
  /\ ~crashed
  /\ Cardinality(timers) < MaxTimers
  /\ IF u \in DOMAIN ircClients
     THEN /\ ircClients' = [ircClients EXCEPT ![u].timer = startAwayTimer(u, timers).timer]
          /\ timers' = startAwayTimer(u, timers).timers
     ELSE UNCHANGED <<ircClients, timers>>
  /\ ircSent' = <<>>
  /\ slackSent' = <<>>
  /\ last' = [op |-> "startAwayTimer", user |-> u]
  /\ UNCHANGED <<dsUsers, nickReqs, idle, relayVars, crashed>>

ClearAwayTimer(u) ==
  /\ ~crashed
  /\ timers' = clearAwayTimer(u, timers)
  /\ ircSent' = <<>>
  /\ slackSent' = <<>>
  /\ last' = [op |-> "clearAwayTimer", user |-> u]
  /\ UNCHANGED <<dsUsers, ircClients, nickReqs, idle, relayVars, crashed>>

\* restartAwayTimer that also sets the nick anew from the user's name
RestartAwayTimer_Renick(u) ==
  /\ ~crashed
  /\ Cardinality(clearAwayTimer(u, timers)) < MaxTimers
  /\ IF u \in DOMAIN ircClients
     THEN \E r \in {startAwayTimer(u, clearAwayTimer(u, timers))} :
            /\ ircClients' = [ircClients EXCEPT ![u].timer = r.timer,
                                                ![u].nick = ircNick(dsUsers[u].name)]
            /\ timers' = r.timers
            /\ idle' = [idle EXCEPT ![u] = 0]
     ELSE UNCHANGED <<ircClients, timers, idle>>
  /\ ircSent' = <<>>
  /\ slackSent' = <<>>
  /\ last' = [op |-> "restartAwayTimer", user |-> u]
  /\ UNCHANGED <<dsUsers, nickReqs, relayVars, crashed>>

\* Bot.restartAwayTimer(user): clearAwayTimer, then startAwayTimer
\* (lines 708..711); the user has been active, the idle time starts anew
RestartAwayTimer(u) ==
  /\ ~crashed
  /\ Cardinality(clearAwayTimer(u, timers)) < MaxTimers
  /\ IF u \in DOMAIN ircClients
     THEN \E r \in {startAwayTimer(u, clearAwayTimer(u, timers))} :
            /\ ircClients' = [ircClients EXCEPT ![u].timer = r.timer]
            /\ timers' = r.timers
            /\ idle' = [idle EXCEPT ![u] = 0]
     ELSE UNCHANGED <<ircClients, timers, idle>>
  /\ ircSent' = <<>>
  /\ slackSent' = <<>>
  /\ last' = [op |-> "restartAwayTimer", user |-> u]
  /\ UNCHANGED <<dsUsers, nickReqs, relayVars, crashed>>

\* a tick of the clock; a timeout that is due fires before time goes on
Tick ==
  /\ ~crashed
  /\ \A t \in timers : t.left > 0
  /\ timers' = {[t EXCEPT !.left = @ - 1] : t \in timers}
  /\ idle' = [u \in Users |->
                IF u \in DOMAIN ircClients /\ idle[u] < ircTimeout
                THEN idle[u] + 1 ELSE idle[u]]
  /\ ircSent' = <<>>
  /\ slackSent' = <<>>
  /\ last' = [op |-> "tick"]
  /\ UNCHANGED <<dsUsers, ircClients, nickReqs, relayVars, crashed>>

\* a timeout fires: this.deleteClient(user, message)
TimerFire(t) ==
  /\ ~crashed
  /\ t \in timers
  /\ t.left = 0
  /\ deleteClient(t.user, t)
  /\ slackSent' = <<>>
  /\ last' = [op |-> "timerFire", user |-> t.user,
              live |-> t.user \in DOMAIN ircClients,
              idle |-> idle[t.user],
              current |-> t.user \in DOMAIN ircClients
                          /\ ircClients[t.user].timer = t.id]
  /\ UNCHANGED <<dsUsers, relayVars, crashed>>

\* this.statusChanges = options.statusChanges || false       (line 205)
statusChanges == TRUE

\* this.slackChannels = _.keys(options.channelMapping)        (line 209)
slackChannels ==
  [i \in 1..Len(optionsChannelMapping) |-> optionsChannelMapping[i][1]]

\* dataStore.getChannelOrGroupByName(name) finds nothing for one of the
\* channels: slackChannel.members throws                (lines 633..635)
checkActiveUsersThrows ==
  \E i \in 1..Len(slackChannels) :
    ChannelOrGroupIdsByName(StripHash(slackChannels[i])) = {}

\* the members Bot.checkActiveUsers visits for the channels from the i-th
\* on, in order                                          (lines 633..635)
RECURSIVE VisitedMembers(_)
VisitedMembers(i) ==
  IF i > Len(slackChannels) THEN <<>>
  ELSE dsChannels[CHOOSE id \in ChannelOrGroupIdsByName(StripHash(slackChannels[i])) :
                    TRUE].members
         \o VisitedMembers(i + 1)

\* Bot.checkActiveUsers over the members visited (lines 635..640):
\* connectNewClient for every member whose presence is active, which gives
\* a client, with its away timer, to a member who has none. The result: the
\* clients, the pending timeouts and the connections made.
RECURSIVE checkActiveUsers(_, _, _)
checkActiveUsers(members, clients, pending) ==
  IF members = <<>>
  THEN [clients |-> clients, timers |-> pending, made |-> <<>>]
  ELSE IF dsUsers[Head(members)].presence = "active"
          /\ Head(members) \notin DOMAIN clients
       THEN CHOOSE r \in
              {[rest EXCEPT !.made = <<Head(members)>> \o @] :
                 rest \in
                   {checkActiveUsers(Tail(members),
                      clients @@
                        (Head(members) :>
                           [nick |-> ircNick(dsUsers[Head(members)].name),
                            slackName |-> dsUsers[Head(members)].name,
                            timer |-> s.timer]),
                      s.timers) :
                    s \in {startAwayTimer(Head(members), pending)}}} : TRUE
       ELSE checkActiveUsers(Tail(members), clients, pending)

\* Slack's 'open' event: checkActiveUsers for every channel of
\* this.slackChannels                        (lines 264..269, 628..641)
SlackOpen ==
  /\ ~crashed
  /\ slackSent' = <<>>
  /\ last' = [op |-> "open"]
  /\ IF ~statusChanges
     THEN /\ ircSent' = <<>>
          /\ UNCHANGED <<sessionVars, crashed>>
     ELSE IF checkActiveUsersThrows
          THEN /\ Throws
               /\ ircSent' = <<>>
               /\ UNCHANGED sessionVars
          ELSE \E r \in {checkActiveUsers(VisitedMembers(1), ircClients, timers)} :
                 /\ Cardinality(r.timers) <= MaxTimers
                 /\ ircClients' = r.clients
                 /\ timers' = r.timers
                 /\ idle' = [u \in Users |->
                               IF \E k \in 1..Len(r.made) : r.made[k] = u
                               THEN 0 ELSE idle[u]]
                 /\ nickReqs' = [u \in Users |->
                                   IF \E k \in 1..Len(r.made) : r.made[k] = u
                                   THEN <<>> ELSE nickReqs[u]]
                 /\ ircSent' = [k \in 1..Len(r.made) |->
                                  ShadowOut(r.made[k], "connect",
                                            r.clients[r.made[k]].nick)]
                 /\ crashed' = crashed
  /\ UNCHANGED <<dsUsers, relayVars>>

\* ------------------------------------------------------------------------
\* The specification
\* ------------------------------------------------------------------------

\* The message events of the relay: every sender, conversations of each kind,
\* a plain text, one with a fenced block and a command; a subtype outside the
\* allowlist and an attachment come with one message each
RelayChannels == {IdGen, IdRnd, IdDm1, IdUnknown}

RelayTexts == {TxtHi, TxtCode, TxtOnlineAl}

SlackMessage ==
  \E user \in Users, channel \in RelayChannels, text \in RelayTexts,
     subtype \in MsgSubtypes, attachments \in BOOLEAN :
    /\ (attachments \/ subtype \notin {"none", "me_message"})
         => (user = U1 /\ channel = IdGen /\ text = TxtHi)
    /\ RtmMessage(user, channel, text, subtype, attachments)

GistCallback == \E id \in DOMAIN gists, err \in BOOLEAN : GistDone(id, err)

IrcMessage ==
  \E kind \in {"message", "notice", "action"}, author \in {NickBob, NickTroll},
     channel \in IrcChannels, text \in {IrcTxtHi} :
    IrcEvent(kind, author, channel, text)

IrcStatusChange ==
  \E kind \in {"join", "part", "quit"}, nick \in {NickBob, nickname},
     channels \in {<<IrcGen>>, <<IrcOther>>, <<IrcGen, IrcOps>>} :
    IrcStatus(kind, nick, channels)

IrcInvited == \E channel \in IrcChannels : IrcInvite(channel)

NextRelay ==
  \/ SlackMessage
  \/ GistCallback
  \/ IrcMessage
  \/ IrcStatusChange
  \/ IrcInvited

\* the relay of messages in both directions
SpecRelay == Init /\ [][NextRelay]_vars

\* ------------------------------------------------------------------------
\* Properties of the relay (SpecRelay)
\* ------------------------------------------------------------------------

\* C1: a Slack message whose sender's name is in muteUsers.slack, handled at
\* once or after its gist call, sends nothing to IRC (no line, no command
\* notice, no command dispatch); an IRC message, notice or action whose
\* author is in muteUsers.irc posts nothing to Slack.
C1_MuteBothDirections ==
  /\ (/\ last.op \in {"message", "gist"}
      /\ dsUsers[last.msg.user].name \in muteUsers.slack)
       => /\ ircSent = <<>>
          /\ last.outcome \notin {"relayed", "command"}
          /\ \A i \in 1..Len(namesOnce) : namesOnce[i].req # last.msg.id
  /\ (last.op = "irc" /\ last.author \in muteUsers.irc) => slackSent = <<>>

\* a muted user's command, sent from a mapped channel, has been handled
C1_Witness ==
  /\ last.op = "message"
  /\ last.msg.user = U2
  /\ dsUsers[U2].name \in muteUsers.slack
  /\ last.msg.channel = IdGen
  /\ last.msg.text = TxtOnlineAl
  /\ last.outcome = "dropped"

C4_UnroutableIrcDropped ==
  LET Targets(channel) ==
        {id \in DOMAIN dsChannels :
           /\ dsChannels[id].is_channel \/ dsChannels[id].is_group
           /\ dsChannels[id].is_member \/ dsChannels[id].is_group
           /\ \E i \in 1..Len(optionsChannelMapping) :
                /\ optionsChannelMapping[i][1] = ChannelName(id)
                /\ toLowerCase(FirstWord(optionsChannelMapping[i][2]))
                     = toLowerCase(channel)}
  IN /\ last.op = "irc" =>
          /\ Targets(last.channel) = {} => slackSent = <<>>
          /\ (/\ Targets(last.channel) # {}
              /\ last.author \notin muteUsers.irc
              /\ \A u \in DOMAIN ircClients : ircClients[u].nick # last.author)
               => /\ Len(slackSent) = 1
                  /\ slackSent[1].api = "chat.postMessage"
                  /\ slackSent[1].channel \in Targets(last.channel)
     /\ last.op = "status" =>
          \A k \in 1..Len(slackSent) :
            \E j \in 1..Len(last.channels) :
              slackSent[k].channel \in Targets(last.channels[j])

\* a message on #dev, which is mapped to a public channel the bot is not in
C4_Witness ==
  /\ last.op = "irc"
  /\ last.channel = IrcDev
  /\ last.author = NickBob
  /\ slackSent = <<>>

\* C5: a plain message with a fenced block, of an unmuted user in a mapped
\* channel, sends nothing to IRC while its gist call is pending and is said
\* exactly once when the call returns, whatever was handled in between: with
\* the fenced block replaced by the link on success, unchanged on failure.
\* No message is said twice.
C5_ExactlyOnceAcrossGist ==
  LET Count(id) == Cardinality({k \in 1..Len(relayed) : relayed[k] = id})
      Fence(t, i) == i + 2 <= Len(t) /\ SubSeq(t, i, i + 2) = <<BQ, BQ, BQ>>
      prefix == <<"<">> \o dsUsers[last.msg.user].name \o <<">", " ">>
  IN /\ \A id \in DOMAIN gists :
          /\ Count(id) = 0
          /\ \A k \in 1..Len(ircSent) : ircSent[k].src # id
     /\ \A id \in 1..nextMsg : Count(id) <= 1
     /\ (last.op = "message" /\ last.outcome = "suspended") => ircSent = <<>>
     /\ (/\ last.op = "gist"
         /\ last.msg.subtype = "none"
         /\ last.msg.user # USLACKBOT
         /\ dsUsers[last.msg.user].name \notin muteUsers.slack
         /\ last.msg.channel \in DOMAIN dsChannels
         /\ \E i \in 1..Len(optionsChannelMapping) :
              optionsChannelMapping[i][1] = ChannelName(last.msg.channel))
          => /\ Count(last.msg.id) = 1
             /\ Len(ircSent) = 1
             /\ ircSent[1].cmd = "say"
             /\ ircSent[1].src = last.msg.id
             /\ last.err => ircSent[1].text = prefix \o last.orig
             /\ ~last.err =>
                  \E i, j \in 1..Len(last.orig) :
                    /\ Fence(last.orig, i)
                    /\ Fence(last.orig, j)
                    /\ j >= i + 3
                    /\ ircSent[1].text =
                         prefix \o SubSeq(last.orig, 1, i - 1) \o GistUrl
                           \o SubSeq(last.orig, j + 3, Len(last.orig))

\* the gist call of the first message returns with a link after another
\* event has been handled
C5_Witness ==
  /\ last.op = "gist"
  /\ ~last.err
  /\ last.msg.id = 1
  /\ nextMsg = 2
  /\ last.msg.user = U1
  /\ last.msg.channel = IdGen
  /\ last.msg.subtype = "none"
  /\ Len(ircSent) = 1


\* The commands of the bridge, sent by one user from the conversations of
\* each kind, and the replies of the IRC server
CommandChannels == {IdGen, IdOps, IdDm1}

CommandTexts ==
  {TxtOnline, TxtOnlineAl, TxtOnlineBad, TxtIrcTopic, TxtTopicNew, TxtTopicBare,
   TxtHelp, TxtMsg, TxtMsgBare}

SlackCommand ==
  \E channel \in CommandChannels, text \in CommandTexts :
    RtmMessage(U1, channel, text, "none", FALSE)

IrcNamesReply ==
  \E chan \in {IrcGen, IrcOps}, names \in NamesReplies : IrcNames(chan, names)

IrcTopicReply == \E chan \in {IrcGen, IrcOps}, topic \in Topics : IrcTopic(chan, topic)

ImOpenCallback == \E i \in 1..Len(imOpens) : ImOpened(i)

NextCommands ==
  \/ SlackCommand
  \/ IrcNamesReply
  \/ IrcTopicReply
  \/ ImOpenCallback

SpecCommands == Init /\ [][NextCommands]_vars

\* ------------------------------------------------------------------------
\* Properties of the commands (SpecCommands)
\* ------------------------------------------------------------------------

\* C6: a NAMES reply completes at most one pending `online` request, and
\* only a request made for the IRC channel the reply is about.
C6_NoCrossDelivery ==
  last.op = "names" =>
    /\ Len(last.fired) <= 1
    /\ \A i \in 1..Len(last.fired) : last.fired[i].ircChannel = last.chan

\* C7: every `online`, `irctopic` and `topic` request registers exactly one
\* once-listener, which is removed when it fires: no request has two
\* listeners, none is answered twice, none that fired is still registered,
\* and the listeners registered are the requests made less those that fired.
C7_OneShotCompletion ==
  [][LET regs == namesOnce' \o topicOnce'
         Registers(text) == text \in {TxtOnline, TxtOnlineAl, TxtOnlineBad,
                                      TxtIrcTopic, TxtTopicNew}
         made == IF /\ last'.op = "message"
                    /\ last'.outcome = "command"
                    /\ Registers(last'.msg.text)
                 THEN 1 ELSE 0
         failed == IF last'.op = "names" /\ last'.threw THEN 1 ELSE 0
     IN /\ \A i, j \in 1..Len(regs) : regs[i].req = regs[j].req => i = j
        /\ \A i, j \in 1..Len(replied') : replied'[i] = replied'[j] => i = j
        /\ \A i \in 1..Len(regs) :
             /\ \A k \in 1..Len(replied') : replied'[k] # regs[i].req
             /\ \A k \in 1..Len(imOpens') : imOpens'[k].req # regs[i].req
        /\ \A i \in 1..Len(imOpens') :
             \A k \in 1..Len(replied') : replied'[k] # imOpens'[i].req
        /\ \A k \in 1..Len(slackSent') :
             (slackSent'[k].api = "rtm.sendMessage" /\ slackSent'[k].req # 0)
               => /\ Cardinality({m \in 1..Len(replied') :
                                    replied'[m] = slackSent'[k].req}) = 1
                  /\ \A m \in 1..Len(replied) : replied[m] # slackSent'[k].req
        /\ Len(namesOnce') + Len(topicOnce') + Len(imOpens') + Len(replied')
             = Len(namesOnce) + Len(topicOnce) + Len(imOpens) + Len(replied)
                 + made - failed]_vars

\* the topic arrives a second time: the request answered before is not
\* answered again
C7_Witness ==
  /\ last.op = "topic"
  /\ last.fired = <<>>
  /\ slackSent = <<>>
  /\ Len(replied) = 1
  /\ topicOnce = <<>>

\* C8: `.msg <nick> <text>` in a DM with the bot is accepted and sends
\* nothing to an IRC channel; in a shared channel it is refused with one
\* notice to the sender and sends nothing to IRC.
C8_MsgCommand ==
  (last.op = "message" /\ last.msg.text = TxtMsg) =>
    /\ last.outcome # "threw"
    /\ ircSent = <<>>
    /\ dsChannels[last.msg.channel].is_channel \/ dsChannels[last.msg.channel].is_group
         => Len(slackSent) = 1 /\ slackSent[1].channel = last.msg.channel
    /\ ~(dsChannels[last.msg.channel].is_channel \/ dsChannels[last.msg.channel].is_group)
         => last.outcome = "command"

\* The shadow clients: presence and renames of the users, the replies to
\* NICK, the away timers, the clock, and messages of shadow clients that
\* come back from IRC
SessionUsers == {U1}

PresenceChange ==
  \E u \in SessionUsers : \E name \in NamesOf(u), presence \in Presences :
    UserChange(u, name, presence)

NickConfirmed == \E u \in SessionUsers : NickConfirm(u)

TimerStart == \E u \in SessionUsers : StartAwayTimer(u)

TimerClear == \E u \in SessionUsers : ClearAwayTimer(u)

TimerRestart == \E u \in SessionUsers : RestartAwayTimer(u)

TimerFired == \E t \in timers : TimerFire(t)

ShadowEcho ==
  \E author \in {ShadowAl, ShadowADotL, NickBob} :
    IrcEvent("message", author, IrcGen, IrcTxtHi)

NextSessions ==
  \/ SlackOpen
  \/ PresenceChange
  \/ NickConfirmed
  \/ TimerStart
  \/ TimerClear
  \/ TimerRestart
  \/ Tick
  \/ TimerFired
  \/ ShadowEcho

SpecSessions == Init /\ [][NextSessions]_vars

\* ------------------------------------------------------------------------
\* Properties of the shadow clients (SpecSessions)
\* ------------------------------------------------------------------------

\* C2: an IRC message whose author is the nick a shadow client has at the
\* moment the message is handled posts nothing to Slack; a nick that no
\* client has any more (after a rename, after an expiry) is relayed again.
C2_EchoSuppression ==
  last.op = "irc" =>
    /\ (\E u \in DOMAIN ircClients : ircClients[u].nick = last.author)
         => slackSent = <<>>
    /\ (/\ \A u \in DOMAIN ircClients : ircClients[u].nick # last.author
        /\ last.author \notin muteUsers.irc
        /\ last.channel = IrcGen)
         => Len(slackSent) = 1

\* the client of U1 has been told its new nick and still has the old one,
\* and a message of the old nick comes back from IRC
C2_Witness ==
  /\ last.op = "irc"
  /\ U1 \in DOMAIN ircClients
  /\ ircClients[U1].slackName = NameADotL
  /\ ircClients[U1].nick = ShadowAl
  /\ last.author = ShadowAl
  /\ slackSent = <<>>

\* C9: a client is removed by a timeout only when it was not touched for
\* ircTimeout, with exactly one disconnect; a timeout that finds no client
\* does nothing.
C9_IdleExpiryOnce ==
  last.op = "timerFire" =>
    /\ last.live => /\ last.idle >= ircTimeout
                    /\ Len(ircSent) = 1
                    /\ ircSent[1].cmd = "disconnect"
    /\ ~last.live => ircSent = <<>>

\* C10: starting, clearing or restarting the away timer changes neither the
\* nick, nor the Slack name, nor the key of a client. A nick changes only by
\* the server's answer to a NICK command, and NICK is sent only by the rename
\* step of the presence handler: taken only for an active user who has a
\* client whose nick differs from the nick of the user's name, it sends one
\* NICK on that client, stores the name, and adds or removes no client.
C10_NickStability ==
  [][/\ last'.op \in {"startAwayTimer", "clearAwayTimer", "restartAwayTimer"}
          => /\ DOMAIN ircClients' = DOMAIN ircClients
             /\ \A u \in DOMAIN ircClients :
                  /\ ircClients'[u].nick = ircClients[u].nick
                  /\ ircClients'[u].slackName = ircClients[u].slackName
     /\ \A u \in DOMAIN ircClients \cap DOMAIN ircClients' :
          ircClients'[u].nick # ircClients[u].nick
            => /\ last'.op = "nickConfirm"
               /\ nickReqs[u] # <<>>
               /\ ircClients'[u].nick = Head(nickReqs[u])
     /\ \A u \in Users :
          Len(nickReqs'[u]) > Len(nickReqs[u])
            => last'.op = "userChange" /\ last'.step = "rename" /\ last'.user = u
     /\ (\E k \in 1..Len(ircSent') : ircSent'[k].cmd = "NICK")
          => last'.op = "userChange" /\ last'.step = "rename"
     /\ (last'.op = "userChange" /\ last'.step = "rename")
          => /\ last'.presence = "active"
             /\ last'.user \in DOMAIN ircClients
             /\ DOMAIN ircClients' = DOMAIN ircClients
             /\ Substr0(DotsToDashes(dsUsers'[last'.user].name),
                        SERVER_NICKLEN - Len(nickSuffix)) \o nickSuffix
                  # ircClients[last'.user].nick
             /\ Len(ircSent') = 1
             /\ ircSent'[1].cmd = "NICK"
             /\ ircSent'[1].client = last'.user
             /\ ircClients'[last'.user].slackName = dsUsers'[last'.user].name
             /\ ircClients'[last'.user].nick = ircClients[last'.user].nick
             /\ \A u \in DOMAIN ircClients \ {last'.user} :
                  ircClients'[u] = ircClients[u]]_vars

\* the away timer of a renamed client, whose new nick the server has not
\* confirmed yet, is restarted
C10_Witness ==
  /\ last.op = "restartAwayTimer"
  /\ last.user \in DOMAIN ircClients
  /\ ircClients[last.user].nick = ShadowAl
  /\ ircClients[last.user].slackName = NameADotL
  /\ nickReqs[last.user] # <<>>

\* C11: a presence event changes the clients only as its presence allows. An
\* event whose presence is not active changes no client, timer or pending
\* request and sends nothing; an active one for a user without a client
\* makes exactly one client, for that user; an active one for a user who has
\* a client makes none and removes none. No step at all makes a client for a
\* user who has one, or two clients for one user.
C11_OneSessionPerUser ==
  [][/\ \A k \in 1..Len(ircSent') :
          ircSent'[k].cmd = "connect"
            => /\ ircSent'[k].client \notin DOMAIN ircClients
               /\ ircSent'[k].client \in DOMAIN ircClients'
               /\ \A j \in 1..Len(ircSent') :
                    (ircSent'[j].cmd = "connect"
                       /\ ircSent'[j].client = ircSent'[k].client) => j = k
     /\ \A u \in DOMAIN ircClients' \ DOMAIN ircClients :
          \E k \in 1..Len(ircSent') :
            ircSent'[k].cmd = "connect" /\ ircSent'[k].client = u
     /\ last'.op = "userChange" =>
          /\ last'.presence # "active"
               => /\ UNCHANGED <<sessionVars, relayVars, crashed>>
                  /\ ircSent' = <<>>
                  /\ slackSent' = <<>>
          /\ (last'.presence = "active" /\ last'.user \notin DOMAIN ircClients)
               => /\ DOMAIN ircClients' = DOMAIN ircClients \cup {last'.user}
                  /\ Len(ircSent') = 1
                  /\ ircSent'[1].cmd = "connect"
                  /\ ircSent'[1].client = last'.user
          /\ (last'.presence = "active" /\ last'.user \in DOMAIN ircClients)
               => /\ DOMAIN ircClients' = DOMAIN ircClients
                  /\ \A k \in 1..Len(ircSent') : ircSent'[k].cmd # "connect"]_vars

\* an active presence event has been handled for a user who had a client
\* already, made by an earlier one
C11_Witness ==
  /\ last.op = "userChange"
  /\ last.presence = "active"
  /\ last.step \in {"none", "rename"}
  /\ last.user \in DOMAIN ircClients

\* ------------------------------------------------------------------------
\* The channel mapping of the constructor, for every mapping it accepts
\* (SpecMapping)
\* ------------------------------------------------------------------------

\* the Slack names and the IRC channels, as configured, of the mappings
MappingKeys == {SlackGen, SlackOps}

MappingTargets == {RawIrcGen, IrcGen, IrcGenUpper, IrcOps}

\* validateChannelMapping(options.channelMapping) returns (line 196): the
\* keys of an object differ, and two keys that are given the same IRC channel
\* are a configuration error
validateChannelMapping(options) ==
  \A i, j \in 1..Len(options) :
    i # j => /\ options[i][1] # options[j][1]
             /\ options[i][2] # options[j][2]

\* the mappings of at most two channels that the constructor accepts
AcceptedMappings ==
  {options \in {<<a>> : a \in MappingKeys \X MappingTargets}
               \cup {<<a, b>> : a, b \in MappingKeys \X MappingTargets} :
     validateChannelMapping(options)}

\* new Bot(options): the mapping and its inverse are built
ConstructBot ==
  /\ last.op = "init"
  /\ \E options \in AcceptedMappings :
       last' = [op |-> "construct", options |-> options,
               mapping |-> MappingOf(options)]
  /\ UNCHANGED <<dsUsers, sessionVars, relayVars, crashed, ircSent, slackSent>>

\* the IRC channel of a Slack name that is a key, and the Slack name that
\* sendToSlack finds for that IRC channel             (lines 548, 575)
RoundTripSlack ==
  /\ last.op \in {"construct", "roundTripSlack", "roundTripIrc"}
  /\ \E i \in 1..Len(last.mapping) :
       \E irc \in {Forward(last.mapping, last.mapping[i][1])} :
         last' = [op |-> "roundTripSlack", options |-> last.options,
                  mapping |-> last.mapping,
                  name |-> last.mapping[i][1], via |-> irc,
                  back |-> Inverse(last.mapping, toLowerCase(irc))]
  /\ UNCHANGED <<dsUsers, sessionVars, relayVars, crashed, ircSent, slackSent>>

\* the Slack name sendToSlack finds for a mapped IRC channel, and the IRC
\* channel sendToIRC finds for that Slack name         (lines 575, 548)
RoundTripIrc ==
  /\ last.op \in {"construct", "roundTripSlack", "roundTripIrc"}
  /\ \E i \in 1..Len(last.mapping) :
       \E slack \in {Inverse(last.mapping, toLowerCase(last.mapping[i][2]))} :
         last' = [op |-> "roundTripIrc", options |-> last.options,
                  mapping |-> last.mapping,
                  name |-> last.mapping[i][2], via |-> slack,
                  back |-> Forward(last.mapping, slack)]
  /\ UNCHANGED <<dsUsers, sessionVars, relayVars, crashed, ircSent, slackSent>>

NextMapping ==
  \/ ConstructBot
  \/ RoundTripSlack
  \/ RoundTripIrc

SpecMapping == Init /\ [][NextMapping]_vars

\* C12: for every mapping the constructor accepts, a Slack name that is a
\* key comes back from the lookup of its IRC channel followed by the inverse
\* lookup, and a mapped IRC channel comes back from the inverse lookup
\* followed by the lookup.
C12_MappingRoundTrip ==
  last.op \in {"roundTripSlack", "roundTripIrc"} => last.back = last.name

\* ------------------------------------------------------------------------
\* Mention highlighting, for member names and texts (SpecHighlight)
\* ------------------------------------------------------------------------

NameAli ==
  <<"a","l","i">>

NameDotADot ==
  <<".","a",".">>

\* member names: plain, with a period inside, one a prefix of another, and
\* one that begins and ends with a period
MemberNames == {NameAl, NameADotL, NameAli, NameDotADot}

\* the member lists: one or two members, in either order
MemberLists ==
  {<<a>> : a \in MemberNames}
    \cup {p \in {<<a, b>> : a, b \in MemberNames} : p[1] # p[2]}

HighlightWords ==
  {<<"a","l">>, <<"@","a","l">>, <<"a","l",",">>, <<"a","l","i">>,
   <<"a","x","l">>, <<"a","a",".">>, <<"h","i">>}

\* texts of one or two words
HighlightTexts ==
  HighlightWords \cup {a \o <<" ">> \o b : a, b \in HighlightWords}

\* highlightUsername applied to a text, and applied again to its result
HighlightTwice ==
  /\ last.op = "init"
  /\ \E user \in MemberNames, text \in HighlightTexts :
       \E once \in {highlightUsername(user, text)} :
         last' = [op |-> "highlightTwice", names |-> <<user>>, text |-> text,
                  once |-> once, twice |-> highlightUsername(user, once)]
  /\ UNCHANGED <<dsUsers, sessionVars, relayVars, crashed, ircSent, slackSent>>

\* the pass of mapSlackUsers over a member list, and the pass again over its
\* result
MapTwice ==
  /\ last.op = "init"
  /\ \E names \in MemberLists, text \in HighlightTexts :
       \E once \in {HighlightAll(names, text)} :
         last' = [op |-> "mapTwice", names |-> names, text |-> text,
                  once |-> once, twice |-> HighlightAll(names, once)]
  /\ UNCHANGED <<dsUsers, sessionVars, relayVars, crashed, ircSent, slackSent>>

NextHighlight ==
  \/ HighlightTwice
  \/ MapTwice

SpecHighlight == Init /\ [][NextHighlight]_vars

\* C13: highlighting the result of highlighting changes nothing, for one
\* name and for the pass over a member list.
C13_HighlightIdempotent ==
  last.op \in {"highlightTwice", "mapTwice"} => last.twice = last.once

\* ------------------------------------------------------------------------
\* The replies of the online command (SpecCommands)
\* ------------------------------------------------------------------------

\* C14: when a NAMES reply arrives, every request it completes is answered.
\* A request without a query opens the DM of the requester and sends nothing
\* to the channel of the request, and the callback of the open sends the
\* whole list, sorted, to that DM. A request with a query is answered in the
\* channel of the request, with the sorted names that match the query
\* without regard to case, or with the text that no user matches.
C14_OnlineReply ==
  [][/\ last'.op = "names" =>
          LET fired == SubSeq(namesOnce, 1, Len(namesOnce) - Len(namesOnce'))
              hits(l) == {n \in {last'.names[k] : k \in 1..Len(last'.names)} :
                            Search(PatOfName(toLowerCase(l.query)),
                                   toLowerCase(n), 1) # NoMatch}
              answers(l) == {k \in 1..Len(slackSent') :
                               slackSent'[k].api = "rtm.sendMessage"
                                 /\ slackSent'[k].req = l.req}
          IN /\ ~last'.threw
             /\ \A i \in 1..Len(fired) :
                  IF fired[i].query = None
                  THEN /\ answers(fired[i]) = {}
                       /\ \E k \in 1..Len(slackSent') :
                            slackSent'[k] = ImOpenOut(fired[i].user)
                  ELSE /\ Cardinality(answers(fired[i])) = 1
                       /\ \A k \in answers(fired[i]) :
                            /\ slackSent'[k].channel = fired[i].channel
                            /\ IF hits(fired[i]) = {}
                               THEN slackSent'[k].text =
                                      StrNoUsersOnline \o fired[i].query \o <<"'", ".">>
                               ELSE \E s \in [1..Cardinality(hits(fired[i]))
                                                -> hits(fired[i])] :
                                      /\ \A a, b \in DOMAIN s :
                                           a < b => StrLess(s[a], s[b])
                                      /\ slackSent'[k].text =
                                           <<"'">> \o fired[i].query
                                             \o StrMatchedUsers
                                             \o Join(s, <<",", " ">>)
     /\ last'.op = "imOpen" =>
          \E i \in 1..Len(imOpens) :
            /\ imOpens[i].req = last'.req
            /\ Len(slackSent') = 1
            /\ slackSent'[1].api = "rtm.sendMessage"
            /\ slackSent'[1].channel = DmOf(imOpens[i].user)
            /\ \E s \in [1..Len(imOpens[i].userNames)
                           -> {imOpens[i].userNames[k] :
                                 k \in 1..Len(imOpens[i].userNames)}] :
                 /\ \A a, b \in DOMAIN s : a < b => StrLess(s[a], s[b])
                 /\ slackSent'[1].text =
                      StrFollowingUsers \o imOpens[i].ircChannel \o <<":", " ">>
                        \o Join(s, <<",", " ">>)]_vars

\* ------------------------------------------------------------------------
\* The texts of the relay, in both directions (SpecTexts)
\* ------------------------------------------------------------------------

\* references to a channel and to a user the dataStore does not know
TxtBadChannel ==
  <<"<","#","C","9",">"," ","x">>

TxtBadUser ==
  <<"<","@","U","9",">"," ","x">>

\* a reference to the user with a label, a reference to the channel, and
\* <!channel>
TxtScenario ==
  <<"<","@","U","1","|","a","l",">",":"," ","<","#","C","1",">"," ","h","i",
    " ","<","!","c","h","a","n","n","e","l",">">>

\* the command character alone, and followed by a space
TxtDot ==
  <<".">>

TxtDotSpace ==
  <<"."," ">>

\* IRC texts: the nick of a shadow client, and bold
IrcTxtShadow ==
  <<"a","l","-","s","l",":"," ","y","o">>

IrcTxtBold ==
  <<CtlBold,"b",CtlReset," ","a","l">>

SlackTexts == {TxtHi, TxtBadChannel, TxtBadUser, TxtScenario, TxtDot, TxtDotSpace}

SlackText ==
  \E channel \in {IdGen, IdOps}, text \in SlackTexts,
     subtype \in {"none", "me_message"} :
    RtmMessage(U1, channel, text, subtype, FALSE)

ShadowStart == \E presence \in Presences : UserChange(U1, NameAl, presence)

IrcText ==
  \E kind \in {"message", "action"}, channel \in {IrcGen, IrcOps},
     text \in {IrcTxtHi, IrcTxtShadow, IrcTxtBold} :
    IrcEvent(kind, NickBob, channel, text)

NextTexts ==
  \/ SlackText
  \/ ShadowStart
  \/ IrcText

SpecTexts == Init /\ [][NextTexts]_vars

\* C15: a message whose text refers to a channel or a user the dataStore
\* does not know is relayed, with the reference as it was written, and
\* nothing is thrown.
C15_UnresolvedRefsRelayed ==
  (/\ last.op = "message"
   /\ last.msg.text \in {TxtBadChannel, TxtBadUser}
   /\ last.msg.subtype = "none")
    => /\ last.outcome = "relayed"
       /\ ~crashed
       /\ ircSent = <<IrcOut("say", channelMapping(ChannelName(last.msg.channel)),
                             <<"<">> \o dsUsers[last.msg.user].name \o <<">", " ">>
                               \o last.msg.text,
                             last.msg.id)>>

\* C16: the message `<@U1|al>: <#C1> hi <!channel>` of user U1 (al) in the
\* channel C1 (#gen, mapped to #irc) is said once, on #irc, as
\* `<al> @gen hi @channel`.
C16_Scenario ==
  (/\ last.op = "message"
   /\ last.msg.text = TxtScenario
   /\ last.msg.user = U1
   /\ last.msg.channel = IdGen
   /\ last.msg.subtype = "none")
    => ircSent = <<IrcOut("say", IrcGen,
                          <<"<","a","l",">"," ","@","g","e","n"," ","h","i"," ",
                            "@","c","h","a","n","n","e","l">>,
                          last.msg.id)>>

\* C18: a message that begins with the command character and does not match
\* the pattern of a command is said once as `<user> text`, with no notice of
\* a command and no command handled.
C18_NoMatchIsChat ==
  (/\ last.op = "message"
   /\ last.msg.text \in {TxtDot, TxtDotSpace}
   /\ last.msg.subtype = "none")
    => /\ last.outcome = "relayed"
       /\ slackSent = <<>>
       /\ ircSent = <<IrcOut("say", channelMapping(ChannelName(last.msg.channel)),
                             <<"<">> \o dsUsers[last.msg.user].name \o <<">", " ">>
                               \o last.msg.text,
                             last.msg.id)>>

\* C20: the text posted for an IRC message is the text of the event with the
\* control sequences converted, then the names of the members of the channel
\* highlighted, then the nicks of the shadow clients replaced by the Slack
\* names of their users.
C20_TransformationOrder ==
  (last.op = "irc" /\ slackSent # <<>>)
    => /\ Len(slackSent) = 1
       /\ \E converted \in {convertFormatting(FormatIrc(last.kind, last.text))} :
            \E highlighted \in {HighlightAll(
                                  currentChannelUsernames(slackSent[1].channel),
                                  converted)} :
              slackSent[1].text = replaceUsernames(highlighted)

\* ------------------------------------------------------------------------
\* The gist call and the order of the relay (SpecRelay)
\* ------------------------------------------------------------------------

\* C17: gist is called only for a message that will be relayed: every
\* message with a call pending comes from a conversation the dataStore
\* knows and the mapping has, and from a sender who is not muted.
C17_ChecksBeforeGist ==
  \A id \in DOMAIN gists :
    /\ KnownChannelGroupOrDM(gists[id].message.channel)
    /\ channelMapping(ChannelName(gists[id].message.channel)) # None
    /\ ~(muteSlackbot /\ gists[id].message.user = USLACKBOT)
    /\ dsUsers[gists[id].message.user].name \notin muteUsers.slack

\* C19: when a message is said on IRC, no earlier message of the same
\* conversation that will be relayed is still waiting for its gist call, so
\* the messages of a conversation are said in the order they arrived in.
C19_ArrivalOrder ==
  (last.op \in {"message", "gist"} /\ last.outcome \in {"relayed", "command"})
    => \A id \in DOMAIN gists :
         (/\ id < last.msg.id
          /\ gists[id].message.channel = last.msg.channel)
           => \/ muteSlackbot /\ gists[id].message.user = USLACKBOT
              \/ dsUsers[gists[id].message.user].name \in muteUsers.slack

\* ------------------------------------------------------------------------
\* The replies of the topic commands (SpecCommands)
\* ------------------------------------------------------------------------

\* C21: a topic event completes only requests made for the IRC channel the
\* event is about: every `IRC Topic:` reply and every channels.setTopic it
\* causes goes to a Slack channel mapped to that IRC channel, and a topic is
\* set on Slack only for a `topic` request.
C21_TopicCorrelation ==
  last.op = "topic" =>
    /\ \A i \in 1..Len(last.fired) : last.fired[i].ircChannel = last.chan
    /\ \A k \in 1..Len(slackSent) :
         /\ getIRCChannel(slackSent[k].channel) = last.chan
         /\ slackSent[k].text \in {last.topic, StrIrcTopic \o last.topic}

\* ------------------------------------------------------------------------
\* The away timers of the shadow clients (SpecSessions)
\* ------------------------------------------------------------------------

\* C22: the only timeout pending for a user who has a client is the one
\* whose handle the client holds, a user without a client has none, and
\* after clearAwayTimer no timeout is pending for the user.
C22_OneTimerPerSession ==
  /\ \A t \in timers :
       /\ t.user \in DOMAIN ircClients
       /\ t.id = ircClients[t.user].timer
  /\ last.op = "clearAwayTimer" => \A t \in timers : t.user # last.user

\* ------------------------------------------------------------------------
\* createBots, for configurations of every shape (SpecCreateBots)
\* ------------------------------------------------------------------------

\* REQUIRED_FIELDS                                               (line 181)
REQUIRED_FIELDS == {"server", "nickname", "channelMapping", "token"}

\* a mapping that gives two Slack channels the same IRC channel
DuplicateMapping ==
  << <<SlackGen, IrcGen>>, <<SlackOps, IrcGen>> >>

\* the entries of a configuration: the fields that are set, and the channel
\* mapping. One is complete, one has a mapping that is not valid, and the
\* others miss one required field each.
ConfigEntries ==
  {[fields |-> REQUIRED_FIELDS, mapping |-> optionsChannelMapping],
   [fields |-> REQUIRED_FIELDS, mapping |-> DuplicateMapping]}
    \cup {[fields |-> REQUIRED_FIELDS \ {f}, mapping |-> optionsChannelMapping] :
            f \in REQUIRED_FIELDS}

\* the most entries of a configuration array
MaxBots == 3

RECURSIVE ConfigArrays(_)
ConfigArrays(n) ==
  IF n = 0 THEN {<<>>}
  ELSE ConfigArrays(n - 1)
         \cup {Append(a, e) : a \in {b \in ConfigArrays(n - 1) : Len(b) = n - 1},
                              e \in ConfigEntries}

\* what createBots is given: an array, an object, or neither (a string)
ConfigFiles ==
  {[kind |-> "array", entries |-> a] : a \in ConfigArrays(MaxBots)}
    \cup {[kind |-> "object", entries |-> <<e>>] : e \in ConfigEntries}
    \cup {[kind |-> "other", entries |-> <<>>]}

\* new Bot(options) does not throw a ConfigurationError: every required
\* field is set, and the mapping is valid               (lines 191..196)
BotConstructs(options) ==
  /\ REQUIRED_FIELDS \subseteq options.fields
  /\ validateChannelMapping(options.mapping)

\* the forEach of createBots from the i-th entry on (lines 16..20): new
\* Bot(config), bot.connect(), bots.push(bot). The result: the entries whose
\* bots are connected, and whether a constructor threw.
RECURSIVE ConnectEach(_, _)
ConnectEach(entries, i) ==
  IF i > Len(entries) THEN [connected |-> <<>>, threw |-> FALSE]
  ELSE IF ~BotConstructs(entries[i]) THEN [connected |-> <<>>, threw |-> TRUE]
       ELSE CHOOSE r \in
              {[rest EXCEPT !.connected = <<i>> \o @] :
                 rest \in {ConnectEach(entries, i + 1)}} : TRUE

\* createBots(configFile) (lines 11..30). The result: the entries whose bots
\* are connected, whether a ConfigurationError was thrown, and the bots
\* returned (None when it threw).
createBots(configFile) ==
  IF configFile.kind \in {"array", "object"}
  THEN CHOOSE x \in
         {[connected |-> r.connected, threw |-> r.threw,
           bots |-> IF r.threw THEN None ELSE r.connected] :
            r \in {ConnectEach(configFile.entries, 1)}} : TRUE
  ELSE [connected |-> <<>>, threw |-> TRUE, bots |-> None]

CreateBotsCall ==
  /\ last.op = "init"
  /\ \E configFile \in ConfigFiles :
       \E r \in {createBots(configFile)} :
         last' = [op |-> "createBots", configFile |-> configFile,
                  connected |-> r.connected, threw |-> r.threw, bots |-> r.bots]
  /\ UNCHANGED <<dsUsers, sessionVars, relayVars, crashed, ircSent, slackSent>>

NextCreateBots == CreateBotsCall

SpecCreateBots == Init /\ [][NextCreateBots]_vars

\* C23: createBots returns one connected bot for every entry, in the order
\* of the entries, or throws a ConfigurationError with no bot connected; for
\* what is neither an array nor an object it throws.
C23_AllOrNothing ==
  last.op = "createBots" =>
    /\ last.threw => last.connected = <<>>
    /\ ~last.threw =>
         /\ last.bots = [i \in 1..Len(last.configFile.entries) |-> i]
         /\ last.connected = last.bots
    /\ last.configFile.kind = "other" => last.threw

\* ------------------------------------------------------------------------
\* The nick of a shadow client, for names and suffixes (SpecNick)
\* ------------------------------------------------------------------------

\* the longest name and the longest suffix
MaxNameLen == 18

MaxSuffixLen == 17

\* names of every length: of letters, and with a period at every other place
NickNames ==
  {[i \in 1..n |-> "a"] : n \in 0..MaxNameLen}
    \cup {[i \in 1..n |-> IF i % 2 = 0 THEN "." ELSE "a"] : n \in 0..MaxNameLen}

\* options.userNickSuffix: not set (or empty), and of every length
UserNickSuffixes ==
  {[i \in 1..n |-> IF i = 1 THEN "-" ELSE "s"] : n \in 0..MaxSuffixLen}

\* ircNick(slackName) of a Bot constructed with the suffix
DeriveNick ==
  /\ last.op = "init"
  /\ \E name \in NickNames, userNickSuffix \in UserNickSuffixes :
       \E suffix \in {nickSuffixOf(userNickSuffix)} :
         last' = [op |-> "ircNick", name |-> name, suffix |-> suffix,
                  nick |-> ircNickOf(name, suffix)]
  /\ UNCHANGED <<dsUsers, sessionVars, relayVars, crashed, ircSent, slackSent>>

NextNick == DeriveNick

SpecNick == Init /\ [][NextNick]_vars

\* C24, as stated: for every name and every suffix the nick is the name with
\* `-` for every `.`, cut to 16 less the length of the suffix, followed by
\* the suffix, and has at most 16 characters.
C24_NickShape ==
  last.op = "ircNick" =>
    LET kept == Len(last.nick) - Len(last.suffix)
    IN /\ Len(last.nick) <= SERVER_NICKLEN
       /\ kept >= 0
       /\ SubSeq(last.nick, kept + 1, Len(last.nick)) = last.suffix
       /\ kept = IF Len(last.name) < SERVER_NICKLEN - Len(last.suffix)
                 THEN Len(last.name) ELSE SERVER_NICKLEN - Len(last.suffix)
       /\ \A i \in 1..kept :
            last.nick[i] = IF last.name[i] = "." THEN "-" ELSE last.name[i]

\* The same for a suffix of at most 16 characters, where the shape and the
\* length agree with each other.
NickShapeBounded ==
  (last.op = "ircNick" /\ Len(last.suffix) <= SERVER_NICKLEN) =>
    LET kept == Len(last.nick) - Len(last.suffix)
    IN /\ Len(last.nick) <= SERVER_NICKLEN
       /\ kept >= 0
       /\ SubSeq(last.nick, kept + 1, Len(last.nick)) = last.suffix
       /\ kept = IF Len(last.name) < SERVER_NICKLEN - Len(last.suffix)
                 THEN Len(last.name) ELSE SERVER_NICKLEN - Len(last.suffix)
       /\ \A i \in 1..kept :
            last.nick[i] = IF last.name[i] = "." THEN "-" ELSE last.name[i]

====
